---- MODULE Spec2Model ----
(***************************************************************************)
(* Model of the communication analysis engine of MindMate-AI:              *)
(* analyze_interpersonal and analyze_audio_features of                      *)
(* src/src/agents/interpersonal_coach.py, with the user store of            *)
(* src/src/core.py.                                                         *)
(*                                                                          *)
(* Text is a sequence of tokens: a maximal run of word characters (\w) is   *)
(* one token, every other character is a token of its own.  All the         *)
(* regular expressions of the source are built from whole words, spaces,    *)
(* apostrophes and commas between \b anchors, so matching them on tokens    *)
(* is matching them on characters.  Emoji prefixes of the source's strings  *)
(* are left out of the strings of the model.                                *)
(***************************************************************************)
EXTENDS Integers, Sequences, FiniteSets, TLC

(***************************************************************************)
(* Bounds of the model.                                                     *)
(***************************************************************************)
\* the largest number of phrases of the vocabulary in one generated text
MaxPhrases == 3
\* the number of calls of one session (the counters of the store are unbounded)
MaxCalls == 2

(***************************************************************************)
(* Tokens, str.lower() and the regular expressions.                         *)
(***************************************************************************)
NonWordToks == {" ", ",", ".", "'", "?", "!", "\n"}

IsWordTok(t) == t \notin NonWordToks

\* str.lower() on one token: the capitalised words of the vocabulary.
LowerTok(t) ==
  CASE t = "You" -> "you"
    [] t = "I" -> "i"
    [] t = "Why" -> "why"
    [] t = "When" -> "when"
    [] t = "What" -> "what"
    [] t = "Let" -> "let"
    [] t = "Maybe" -> "maybe"
    [] t = "Sorry" -> "sorry"
    [] t = "The" -> "the"
    [] t = "Well" -> "well"
    [] t = "Honestly" -> "honestly"
    [] OTHER -> t

LowerText(toks) == [i \in 1..Len(toks) |-> LowerTok(toks[i])]

\* Words joined by single spaces.
W(ws) ==
  [i \in 1..(IF Len(ws) = 0 THEN 0 ELSE 2 * Len(ws) - 1) |->
     IF i % 2 = 1 THEN ws[(i + 1) \div 2] ELSE " "]

\* Atoms of a pattern: \b, .* and a choice between literal token sequences.
B == [kind |-> "b", alts |-> {}]
DotStar == [kind |-> "any", alts |-> {}]
Alt(S) == [kind |-> "lit", alts |-> S]
Lit(ws) == <<Alt({W(ws)})>>
\* x'?y : the apostrophe is optional, and without it x and y are one word
Apos(x, y, xy) == <<Alt({<<x, "'", y>>, <<xy>>})>>
SP == <<Alt({<<" ">>})>>

\* \b at position i (between toks[i-1] and toks[i])
AtBoundary(toks, i) ==
  LET before == i > 1 /\ IsWordTok(toks[i - 1])
      after == i <= Len(toks) /\ IsWordTok(toks[i])
  IN before # after

HasAt(toks, i, a) ==
  /\ i + Len(a) - 1 <= Len(toks)
  /\ (a = <<>> \/ toks[i] = a[1])
  /\ \A k \in 2..Len(a) : toks[i + k - 1] = a[k]

\* The positions after a match of p[k..] that starts at position i.
RECURSIVE MatchEnds(_, _, _, _)
MatchEnds(p, k, toks, i) ==
  IF k > Len(p) THEN {i}
  ELSE IF p[k].kind = "b"
    THEN IF AtBoundary(toks, i) THEN MatchEnds(p, k + 1, toks, i) ELSE {}
  ELSE IF p[k].kind = "any"
    THEN UNION { MatchEnds(p, k + 1, toks, j) :
                   j \in { j \in i..(Len(toks) + 1) :
                             \A m \in i..(j - 1) : toks[m] # "\n" } }
  ELSE UNION { MatchEnds(p, k + 1, toks, i + Len(a)) :
                 a \in { a \in p[k].alts : HasAt(toks, i, a) } }

\* re.search(pattern, toks) is not None
ReSearch(p, toks) ==
  \E i \in 1..(Len(toks) + 1) : MatchEnds(p, 1, toks, i) # {}

SetMax(S) == CHOOSE x \in S : \A y \in S : y <= x

\* re.sub(pattern, repl, toks, flags=re.IGNORECASE): leftmost matches, not
\* overlapping, replaced from left to right (every pattern substituted in
\* the source matches at least one token).
RECURSIVE SubFrom(_, _, _, _, _)
SubFrom(p, repl, toks, lower, i) ==
  IF i > Len(toks) THEN <<>>
  ELSE LET ends == MatchEnds(p, 1, lower, i)
       IN IF ends # {} /\ SetMax(ends) > i
            THEN repl \o SubFrom(p, repl, toks, lower, SetMax(ends))
            ELSE <<toks[i]>> \o SubFrom(p, repl, toks, lower, i + 1)

\* Mutant of ReSubIgnoreCase: the flag re.IGNORECASE is left out.
ReSubCaseSensitive(p, repl, toks) == SubFrom(p, repl, toks, toks, 1)

ReSubIgnoreCase(p, repl, toks) == SubFrom(p, repl, toks, LowerText(toks), 1)

\* needle in haystack, for str
Contains(hay, needle) ==
  \E i \in 1..(Len(hay) + 1) : HasAt(hay, i, needle)

(***************************************************************************)
(* The rule tables of analyze_interpersonal, in the order of the source's   *)
(* dictionaries.                                                            *)
(***************************************************************************)
Rule(pat, desc) == [pat |-> pat, desc |-> desc]

Phrase(ws) == <<B>> \o Lit(ws) \o <<B>>

aggressive ==
  << Rule(Phrase(<<"you", "always">>), "Absolute blame ('you always')"),
     Rule(Phrase(<<"you", "never">>), "Absolute blame ('you never')"),
     Rule(Phrase(<<"you", "should">>), "Commanding tone"),
     Rule(<<B>> \o Lit(<<"why">>) \o SP \o Apos("didn", "t", "didnt") \o SP
            \o Lit(<<"you">>) \o <<B>>, "Accusatory question"),
     Rule(<<B>> \o Apos("what", "s", "whats") \o SP
            \o Lit(<<"wrong", "with", "you">>) \o <<B>>, "Personal attack"),
     Rule(Phrase(<<"you", "need", "to">>), "Demanding language"),
     Rule(<<B>> \o Apos("you", "re", "youre") \o SP
            \o <<Alt({<<"being", " ">>, <<>>})>>
            \o <<Alt({<<"stupid">>, <<"lazy">>, <<"useless">>})>> \o <<B>>,
          "Direct insult") >>

passive ==
  << Rule(Phrase(<<"maybe", "we", "could">>), "Overly tentative"),
     Rule(Phrase(<<"i", "guess">>), "Lacks confidence"),
     Rule(<<B>> \o Lit(<<"sorry">>) \o <<Alt({<<",">>, <<>>})>> \o SP
            \o Lit(<<"but">>) \o <<B>>, "Unnecessary apologizing"),
     Rule(<<B>> \o Lit(<<"if">>) \o SP \o Apos("that", "s", "thats") \o SP
            \o Lit(<<"okay">>) \o <<B>>, "Excessive permission-seeking"),
     Rule(Phrase(<<"just", "think">>), "'Just' minimizes your opinion"),
     Rule(<<B>> \o Apos("i", "m", "im") \o SP \o Lit(<<"no", "expert">>)
            \o <<B>>, "Self-deprecating"),
     \* \bkind of\b|\bsort of\b
     Rule(<<B, Alt({W(<<"kind", "of">>), W(<<"sort", "of">>)}), B>>,
          "Hedging language") >>

assertive ==
  << Rule(<<B>> \o Lit(<<"i", "feel">>) \o <<B, DotStar, B>> \o Lit(<<"when">>)
            \o <<B>>, "Great 'I feel when' statement!"),
     Rule(Phrase(<<"i", "think">>), "Owning your opinion"),
     Rule(Phrase(<<"i", "believe">>), "Confident stance"),
     Rule(Phrase(<<"i", "need">>), "Clear need expression"),
     Rule(<<B>> \o Apos("i", "d", "id") \o SP \o Lit(<<"like">>) \o <<B>>,
          "Polite but direct"),
     Rule(<<B>> \o Apos("let", "s", "lets") \o <<B>>, "Collaborative language"),
     Rule(Phrase(<<"what", "do", "you", "think">>), "Inviting dialogue") >>

empathetic ==
  << Rule(Phrase(<<"i", "understand">>), "Shows understanding"),
     Rule(Phrase(<<"i", "hear", "you">>), "Active listening"),
     Rule(Phrase(<<"that", "must", "be">>), "Emotional validation"),
     Rule(Phrase(<<"how", "do", "you", "feel">>), "Checking emotions"),
     Rule(Phrase(<<"i", "appreciate">>), "Showing gratitude") >>

fillers ==
  << <<"um">>, <<"uh">>, <<"like">>, <<"you", " ", "know">>, <<"basically">>,
     <<"literally">>, <<"actually">>, <<"honestly">> >>

\* for pattern, desc in rules.items(): if re.search(pattern, lower): ...
\* The descriptions of the rules that match, in the order of the table.
RECURSIVE MatchedFrom(_, _, _)
MatchedFrom(rules, lower, k) ==
  IF k > Len(rules) THEN <<>>
  ELSE (IF ReSearch(rules[k].pat, lower) THEN <<rules[k].desc>> ELSE <<>>)
         \o MatchedFrom(rules, lower, k + 1)

Matched(rules, lower) == MatchedFrom(rules, lower, 1)

Prefixed(mark, descs) == [i \in 1..Len(descs) |-> <<mark, descs[i]>>]

\* found_fillers = [f for f in fillers if f" {f} " in f" {lower} "]
FillerFound(f, lower) ==
  Contains(<<" ">> \o lower \o <<" ">>, <<" ">> \o f \o <<" ">>)

RECURSIVE FoundFrom(_, _)
FoundFrom(lower, k) ==
  IF k > Len(fillers) THEN <<>>
  ELSE (IF FillerFound(fillers[k], lower) THEN <<fillers[k]>> ELSE <<>>)
         \o FoundFrom(lower, k + 1)

FoundFillers(lower) == FoundFrom(lower, 1)

Max(a, b) == IF a >= b THEN a ELSE b
Min(a, b) == IF a <= b THEN a ELSE b

(***************************************************************************)
(* The style labels (without the emoji that precede them in the source).    *)
(***************************************************************************)
AGGRESSIVE == "AGGRESSIVE"
SOMEWHAT_AGGRESSIVE == "SOMEWHAT AGGRESSIVE"
PASSIVE == "PASSIVE"
ASSERTIVE_EMPATHETIC == "ASSERTIVE & EMPATHETIC (Ideal!)"
ASSERTIVE == "ASSERTIVE"
NEUTRAL == "neutral"

\* analysis = {...}: the record a call starts from
InitialAnalysis ==
  [style |-> NEUTRAL, tone_score |-> 6, clarity_score |-> 7,
   confidence_score |-> 6, empathy_score |-> 5,
   issues |-> <<>>, strengths |-> <<>>, filler_words |-> <<>>]

\* Mutant of StyleAndScores: the passive branch is tested before the branch
\* of one aggressive match.
StyleAndScoresPassiveFirst(a, aggressive_count, passive_count, assertive_count, empathetic_count) ==
  IF aggressive_count >= 2
    THEN [a EXCEPT !.style = AGGRESSIVE, !.tone_score = 3,
                   !.confidence_score = 7, !.empathy_score = 2]
  ELSE IF passive_count >= 2
    THEN [a EXCEPT !.style = PASSIVE, !.tone_score = 5,
                   !.confidence_score = 3]
  ELSE IF aggressive_count = 1
    THEN [a EXCEPT !.style = SOMEWHAT_AGGRESSIVE, !.tone_score = 5]
  ELSE IF assertive_count >= 2 /\ empathetic_count >= 1
    THEN [a EXCEPT !.style = ASSERTIVE_EMPATHETIC, !.tone_score = 9,
                   !.confidence_score = 8, !.empathy_score = 8]
  ELSE IF assertive_count >= 1
    THEN [a EXCEPT !.style = ASSERTIVE, !.tone_score = 8,
                   !.confidence_score = 7]
  ELSE a

\* Mutant of StyleAndScores: the branch of one assertive match is tested
\* before the assertive and empathetic branch.
StyleAndScoresAssertiveFirst(a, aggressive_count, passive_count, assertive_count, empathetic_count) ==
  IF aggressive_count >= 2
    THEN [a EXCEPT !.style = AGGRESSIVE, !.tone_score = 3,
                   !.confidence_score = 7, !.empathy_score = 2]
  ELSE IF aggressive_count = 1
    THEN [a EXCEPT !.style = SOMEWHAT_AGGRESSIVE, !.tone_score = 5]
  ELSE IF passive_count >= 2
    THEN [a EXCEPT !.style = PASSIVE, !.tone_score = 5,
                   !.confidence_score = 3]
  ELSE IF assertive_count >= 1
    THEN [a EXCEPT !.style = ASSERTIVE, !.tone_score = 8,
                   !.confidence_score = 7]
  ELSE IF assertive_count >= 2 /\ empathetic_count >= 1
    THEN [a EXCEPT !.style = ASSERTIVE_EMPATHETIC, !.tone_score = 9,
                   !.confidence_score = 8, !.empathy_score = 8]
  ELSE a

\* "Determine style and scores": the if/elif chain on the four counts
StyleAndScores(a, aggressive_count, passive_count, assertive_count, empathetic_count) ==
  IF aggressive_count >= 2
    THEN [a EXCEPT !.style = AGGRESSIVE, !.tone_score = 3,
                   !.confidence_score = 7, !.empathy_score = 2]
  ELSE IF aggressive_count = 1
    THEN [a EXCEPT !.style = SOMEWHAT_AGGRESSIVE, !.tone_score = 5]
  ELSE IF passive_count >= 2
    THEN [a EXCEPT !.style = PASSIVE, !.tone_score = 5,
                   !.confidence_score = 3]
  ELSE IF assertive_count >= 2 /\ empathetic_count >= 1
    THEN [a EXCEPT !.style = ASSERTIVE_EMPATHETIC, !.tone_score = 9,
                   !.confidence_score = 8, !.empathy_score = 8]
  ELSE IF assertive_count >= 1
    THEN [a EXCEPT !.style = ASSERTIVE, !.tone_score = 8,
                   !.confidence_score = 7]
  ELSE a

\* Mutant of TextClarity: the fillers are taken off the default of 7.
TextClarityFromDefault(found_fillers) == Max(3, 7 - Len(found_fillers) * 2)

\* Mutant of TextClarity: the floor of 3 is left out.
TextClarityNoFloor(found_fillers) == 10 - Len(found_fillers) * 2

\* analysis["clarity_score"] = max(3, 10 - len(found_fillers) * 2)
TextClarity(found_fillers) == Max(3, 10 - Len(found_fillers) * 2)

\* The four counts of a text in lower case.
CountsOf(lower) ==
  [aggressive |-> Len(Matched(aggressive, lower)),
   passive |-> Len(Matched(passive, lower)),
   assertive |-> Len(Matched(assertive, lower)),
   empathetic |-> Len(Matched(empathetic, lower))]

\* The four counts of a text: lower = text.lower(), then the four loops.
Counts(text) ==
  CHOOSE c \in { CountsOf(lower) : lower \in {LowerText(text)} } : TRUE

\* Pattern detection, style and text clarity: the analysis before the vocal
\* override.
TextAnalysis(text) ==
  LET lower == LowerText(text)
      agg == Matched(aggressive, lower)
      pas == Matched(passive, lower)
      ass == Matched(assertive, lower)
      emp == Matched(empathetic, lower)
      found_fillers == FoundFillers(lower)
      a0 == [InitialAnalysis EXCEPT
               !.issues = Prefixed("x", agg) \o Prefixed("!", pas),
               !.strengths = ass \o emp,
               !.filler_words = found_fillers]
      a1 == StyleAndScores(a0, Len(agg), Len(pas), Len(ass), Len(emp))
  IN [a1 EXCEPT !.clarity_score = TextClarity(found_fillers)]

(***************************************************************************)
(* analyze_audio_features.  What librosa measures on the file is the        *)
(* record m: duration in tenths of a second, avg_volume, volume_variation   *)
(* and avg_zcr in thousandths, pitches in Hz, num_onsets and num_segments   *)
(* as counted, voiced (the summed length of the intervals) in tenths of a   *)
(* second.  m.outcome tells whether librosa could be imported and whether   *)
(* it raised.                                                               *)
(***************************************************************************)
\* round(n / d) of Python 3: to the nearest, halves to the even neighbour
RoundDiv(n, d) ==
  LET q == n \div d
      r == n % d
  IN IF 2 * r < d THEN q
     ELSE IF 2 * r > d THEN q + 1
     ELSE IF q % 2 = 0 THEN q ELSE q + 1

\* Mutant of VolumeLevel: soft starts below 0.02 instead of 0.03.
VolumeLevelSoftBelow002(m) ==
  IF m.avg_volume > 150 THEN "loud"
  ELSE IF m.avg_volume < 20 THEN "soft"
  ELSE "moderate"

VolumeLevel(m) ==
  IF m.avg_volume > 150 THEN "loud"
  ELSE IF m.avg_volume < 30 THEN "soft"
  ELSE "moderate"

VolumeNote(level) ==
  CASE level = "loud" -> "Speaking loudly - may come across as aggressive"
    [] level = "soft" -> "Speaking softly - may seem unconfident or passive"
    [] OTHER -> "Good volume - clear and audible"

\* pace_per_sec = num_onsets / duration if duration > 0 else 0, compared
\* with 4 and with 2 (duration in tenths)
PaceLevel(m) ==
  IF m.duration > 0 /\ 10 * m.num_onsets > 4 * m.duration THEN "fast"
  ELSE IF m.duration <= 0 \/ 10 * m.num_onsets < 2 * m.duration THEN "slow"
  ELSE "moderate"

PaceNote(level) ==
  CASE level = "fast" -> "Speaking quickly - may indicate nervousness or excitement"
    [] level = "slow" -> "Speaking slowly - sounds thoughtful but may lose attention"
    [] OTHER -> "Good speaking pace - easy to follow"

PitchLevel(m) ==
  IF ~m.has_pitch THEN "unclear"
  ELSE IF m.avg_pitch > 220 THEN "high"
  ELSE IF m.avg_pitch < 100 THEN "low"
  ELSE "medium"

PitchNote(level) ==
  CASE level = "high" -> "Higher pitch - may indicate stress or excitement"
    [] level = "low" -> "Lower pitch - sounds calm and authoritative"
    [] level = "medium" -> "Natural pitch range"
    [] OTHER -> "Could not analyze pitch"

PitchVariety(m) ==
  IF ~m.has_pitch THEN "unclear"
  ELSE IF m.pitch_variation > 50 THEN "expressive"
  ELSE "monotone"

PitchVarietyNote(variety) ==
  CASE variety = "expressive" -> "Good vocal variety - engaging to listen to"
    [] variety = "monotone" -> "Monotone delivery - may sound disengaged"
    [] OTHER -> ""

ClarityLevel(m) ==
  IF m.avg_zcr > 150 THEN "clear"
  ELSE IF m.avg_zcr < 50 THEN "unclear"
  ELSE "moderate"

ClarityNote(level) ==
  CASE level = "clear" -> "Clear enunciation - easy to understand"
    [] level = "unclear" -> "Mumbled or unclear speech - work on articulation"
    [] OTHER -> "Acceptable clarity - could improve enunciation"

\* pause_count = num_segments - 1;
\* avg_pause = (duration - voiced) / max(pause_count, 1), compared with 1.5
\* and with 0.5 (all lengths in tenths of a second)
PauseLevel(m) ==
  LET d == Max(m.num_segments - 1, 1)
      silence == m.duration - m.voiced
  IN IF silence > 15 * d THEN "many_long"
     ELSE IF silence > 5 * d THEN "natural"
     ELSE "few"

PauseNote(level) ==
  CASE level = "many_long" -> "Long pauses - may indicate uncertainty or search for words"
    [] level = "natural" -> "Natural pausing - allows listener to process"
    [] OTHER -> "Few pauses - may sound rushed or nervous"

\* "6. OVERALL CONFIDENCE SCORE": the baseline and the five contributions
ConfidenceDelta(volume_level, pace_level, pitch_variety, clarity_level, pause_level) ==
    (CASE volume_level = "moderate" -> 2 [] volume_level = "loud" -> 1
       [] volume_level = "soft" -> 0 - 2 [] OTHER -> 0)
  + (CASE pace_level = "moderate" -> 2 [] pace_level = "fast" -> 0 - 1
       [] pace_level = "slow" -> 0 - 1 [] OTHER -> 0)
  + (CASE pitch_variety = "expressive" -> 2 [] pitch_variety = "monotone" -> 0 - 2
       [] OTHER -> 0)
  + (CASE clarity_level = "clear" -> 2 [] clarity_level = "unclear" -> 0 - 2
       [] OTHER -> 0)
  + (CASE pause_level = "natural" -> 1 [] pause_level = "many_long" -> 0 - 2
       [] OTHER -> 0)

\* Mutant of VocalConfidence: the lower clamp is left out.
VocalConfidenceNoFloor(volume_level, pace_level, pitch_variety, clarity_level, pause_level) ==
  Min(10, 5 + ConfidenceDelta(volume_level, pace_level, pitch_variety,
                              clarity_level, pause_level))

\* confidence_score = max(1, min(10, confidence_score))
VocalConfidence(volume_level, pace_level, pitch_variety, clarity_level, pause_level) ==
  Max(1, Min(10, 5 + ConfidenceDelta(volume_level, pace_level, pitch_variety,
                                     clarity_level, pause_level)))

\* "7. EMOTIONAL TONE DETECTION": the first rule that matches
EmotionalTone(m) ==
  IF m.avg_volume > 150 /\ m.duration > 0 /\ 10 * m.num_onsets > 4 * m.duration
    THEN "agitated/stressed"
  ELSE IF m.avg_volume < 50 /\ PitchLevel(m) = "low" THEN "calm/sad"
  ELSE IF PitchVariety(m) = "expressive" /\ VolumeLevel(m) = "moderate"
    THEN "engaged/enthusiastic"
  ELSE IF PitchVariety(m) = "monotone" /\ PaceLevel(m) = "slow"
    THEN "bored/disengaged"
  ELSE "neutral/controlled"

VolumeScore(level) == IF level = "moderate" THEN 8 ELSE IF level = "loud" THEN 5 ELSE 4
PaceScore(level) == IF level = "moderate" THEN 8 ELSE 6
PitchScore(variety) == IF variety = "expressive" THEN 8 ELSE 4
ClarityScore(level) == IF level = "clear" THEN 9 ELSE IF level = "moderate" THEN 6 ELSE 3
PauseScore(level) == IF level = "natural" THEN 8 ELSE 5

\* "overall_score": round((...) / 5, 1), in tenths
VocalOverall(volume_level, pace_level, pitch_variety, clarity_level, pause_level) ==
  RoundDiv(10 * ( (IF volume_level = "moderate" THEN 8 ELSE 5)
                + (IF pace_level = "moderate" THEN 8 ELSE 6)
                + (IF pitch_variety = "expressive" THEN 8 ELSE 4)
                + (IF clarity_level = "clear" THEN 9 ELSE 6)
                + (IF pause_level = "natural" THEN 8 ELSE 5) ), 5)

NoFeatures == [status |-> "none"]

\* Mutant of TooShort: half a second is too short as well.
TooShortAtHalf(m) == m.duration <= 5

\* if duration < 0.5 (duration in tenths of a second)
TooShort(m) == m.duration < 5

analyze_audio_features(m) ==
  IF m.outcome = "import_error"
    THEN [status |-> "limited",
          message |-> "librosa not available - only basic transcription provided"]
  ELSE IF m.outcome = "exception"
    THEN [status |-> "error", message |-> "Could not analyze audio features"]
  ELSE IF TooShort(m)
    THEN [status |-> "error", message |-> "Audio too short (min 0.5 seconds)"]
  ELSE
    LET volume_level == VolumeLevel(m)
        pace_level == PaceLevel(m)
        pitch_level == PitchLevel(m)
        pitch_variety == PitchVariety(m)
        clarity_level == ClarityLevel(m)
        pause_level == PauseLevel(m)
    IN [status |-> "success",
        duration_seconds |-> m.duration,
        volume |-> [level |-> volume_level,
                    consistency |-> IF m.volume_variation > 50 THEN "varied"
                                    ELSE "steady",
                    note |-> VolumeNote(volume_level),
                    score |-> VolumeScore(volume_level)],
        pace |-> [level |-> pace_level,
                  \* round(pace_per_sec, 2), in hundredths
                  syllables_per_sec |-> RoundDiv(1000 * m.num_onsets, m.duration),
                  note |-> PaceNote(pace_level),
                  score |-> PaceScore(pace_level)],
        pitch |-> [level |-> pitch_level,
                   variety |-> pitch_variety,
                   note |-> PitchNote(pitch_level),
                   variety_note |-> PitchVarietyNote(pitch_variety),
                   score |-> PitchScore(pitch_variety)],
        clarity |-> [level |-> clarity_level,
                     note |-> ClarityNote(clarity_level),
                     score |-> ClarityScore(clarity_level)],
        pauses |-> [level |-> pause_level,
                    \* round(avg_pause, 2), in hundredths
                    average_seconds |->
                      RoundDiv(10 * (m.duration - m.voiced),
                               Max(m.num_segments - 1, 1)),
                    note |-> PauseNote(pause_level),
                    score |-> PauseScore(pause_level)],
        confidence_score |-> VocalConfidence(volume_level, pace_level,
                                             pitch_variety, clarity_level,
                                             pause_level),
        emotional_tone |-> EmotionalTone(m),
        overall_score |-> VocalOverall(volume_level, pace_level, pitch_variety,
                                       clarity_level, pause_level)]

(***************************************************************************)
(* analyze_interpersonal: the vocal override, the overall score, coaching   *)
(* and rewriting.                                                           *)
(***************************************************************************)
\* An optional value: None is the empty sequence, a value x is <<x>>.
None == <<>>
Some(x) == <<x>>

\* emotional_tone contains the word
ToneHas(emotional_tone, word) ==
  CASE word = "agitated" -> emotional_tone = "agitated/stressed"
    [] word = "stressed" -> emotional_tone = "agitated/stressed"
    [] word = "calm" -> emotional_tone = "calm/sad"
    [] word = "engaged" -> emotional_tone = "engaged/enthusiastic"
    [] word = "enthusiastic" -> emotional_tone = "engaged/enthusiastic"
    [] OTHER -> FALSE

\* Mutant of VocalOverride: an agitated voice sets the tone to 4 instead of
\* capping it at 4.
VocalOverrideSetTone(a, audio_features) ==
  IF audio_features.status = "success"
    THEN LET b == [a EXCEPT
                     !.clarity_score = audio_features.clarity.score,
                     !.confidence_score = audio_features.confidence_score]
             emotional_tone == audio_features.emotional_tone
         IN IF ToneHas(emotional_tone, "agitated")
                 \/ ToneHas(emotional_tone, "stressed")
              THEN [b EXCEPT !.tone_score = 4,
                             !.issues = Append(b.issues,
                                 <<"mic", "Voice sounds agitated/stressed">>)]
            ELSE IF ToneHas(emotional_tone, "calm")
              THEN [b EXCEPT !.tone_score = Max(b.tone_score, 7),
                             !.strengths = Append(b.strengths,
                                                  "Calm vocal tone")]
            ELSE IF ToneHas(emotional_tone, "engaged")
                      \/ ToneHas(emotional_tone, "enthusiastic")
              THEN [b EXCEPT !.strengths = Append(b.strengths,
                                 "Engaged and enthusiastic voice")]
            ELSE b
    ELSE a

\* Mutant of VocalOverride: the confidence score of the voice is not taken
\* over.
VocalOverrideKeepsConfidence(a, audio_features) ==
  IF audio_features.status = "success"
    THEN LET b == [a EXCEPT
                     !.clarity_score = audio_features.clarity.score]
             emotional_tone == audio_features.emotional_tone
         IN IF ToneHas(emotional_tone, "agitated")
                 \/ ToneHas(emotional_tone, "stressed")
              THEN [b EXCEPT !.tone_score = Min(b.tone_score, 4),
                             !.issues = Append(b.issues,
                                 <<"mic", "Voice sounds agitated/stressed">>)]
            ELSE IF ToneHas(emotional_tone, "calm")
              THEN [b EXCEPT !.tone_score = Max(b.tone_score, 7),
                             !.strengths = Append(b.strengths,
                                                  "Calm vocal tone")]
            ELSE IF ToneHas(emotional_tone, "engaged")
                      \/ ToneHas(emotional_tone, "enthusiastic")
              THEN [b EXCEPT !.strengths = Append(b.strengths,
                                 "Engaged and enthusiastic voice")]
            ELSE b
    ELSE a

\* Mutant of VocalOverride: an engaged voice lifts the tone to 7 as a calm
\* voice does.
VocalOverrideEngagedLifts(a, audio_features) ==
  IF audio_features.status = "success"
    THEN LET b == [a EXCEPT
                     !.clarity_score = audio_features.clarity.score,
                     !.confidence_score = audio_features.confidence_score]
             emotional_tone == audio_features.emotional_tone
         IN IF ToneHas(emotional_tone, "agitated")
                 \/ ToneHas(emotional_tone, "stressed")
              THEN [b EXCEPT !.tone_score = Min(b.tone_score, 4),
                             !.issues = Append(b.issues,
                                 <<"mic", "Voice sounds agitated/stressed">>)]
            ELSE IF ToneHas(emotional_tone, "calm")
              THEN [b EXCEPT !.tone_score = Max(b.tone_score, 7),
                             !.strengths = Append(b.strengths,
                                                  "Calm vocal tone")]
            ELSE IF ToneHas(emotional_tone, "engaged")
                      \/ ToneHas(emotional_tone, "enthusiastic")
              THEN [b EXCEPT !.tone_score = Max(b.tone_score, 7),
                             !.strengths = Append(b.strengths,
                                 "Engaged and enthusiastic voice")]
            ELSE b
    ELSE a

\* "IF AUDIO: Override scores with vocal analysis"
VocalOverride(a, audio_features) ==
  IF audio_features.status = "success"
    THEN LET b == [a EXCEPT
                     !.clarity_score = audio_features.clarity.score,
                     !.confidence_score = audio_features.confidence_score]
             emotional_tone == audio_features.emotional_tone
         IN IF ToneHas(emotional_tone, "agitated")
                 \/ ToneHas(emotional_tone, "stressed")
              THEN [b EXCEPT !.tone_score = Min(b.tone_score, 4),
                             !.issues = Append(b.issues,
                                 <<"mic", "Voice sounds agitated/stressed">>)]
            ELSE IF ToneHas(emotional_tone, "calm")
              THEN [b EXCEPT !.tone_score = Max(b.tone_score, 7),
                             !.strengths = Append(b.strengths,
                                                  "Calm vocal tone")]
            ELSE IF ToneHas(emotional_tone, "engaged")
                      \/ ToneHas(emotional_tone, "enthusiastic")
              THEN [b EXCEPT !.strengths = Append(b.strengths,
                                 "Engaged and enthusiastic voice")]
            ELSE b
    ELSE a

\* analysis["overall_score"] = round((tone + clarity + confidence + empathy) / 4)
OverallScore(a) ==
  RoundDiv(a.tone_score + a.clarity_score + a.confidence_score
             + a.empathy_score, 4)

\* Mutant of StyleHas: the style is compared with the word instead of being
\* searched for it, so SOMEWHAT AGGRESSIVE is not aggressive.
StyleHasExact(style, word) ==
  CASE word = "AGGRESSIVE" -> style = AGGRESSIVE
    [] word = "PASSIVE" -> style = PASSIVE
    [] word = "ASSERTIVE" -> style \in {ASSERTIVE, ASSERTIVE_EMPATHETIC}
    [] OTHER -> FALSE

\* "AGGRESSIVE" in style, "PASSIVE" in style, "ASSERTIVE" in style
StyleHas(style, word) ==
  CASE word = "AGGRESSIVE" -> style \in {AGGRESSIVE, SOMEWHAT_AGGRESSIVE}
    [] word = "PASSIVE" -> style = PASSIVE
    [] word = "ASSERTIVE" -> style \in {ASSERTIVE, ASSERTIVE_EMPATHETIC}
    [] OTHER -> FALSE

AggressiveCoaching ==
  << "1 Friend, replace 'You always/never' with 'When [situation]...'",
     "2 Pause 3 seconds before responding when upset",
     "3 Focus on behavior, not the person's character",
     "4 Use format: 'I feel [emotion] when [situation] because [reason]'" >>

PassiveCoaching ==
  << "1 Remove qualifiers: 'maybe' -> state directly",
     "2 Only apologize when you've done something wrong",
     "3 Replace 'I guess' with 'I think' or 'I believe'",
     "4 Friend, your needs matter - state them clearly!" >>

AssertiveCoaching ==
  << "1 Excellent work, Friend! Your 'I' statements are effective",
     "2 To enhance: Add clarifying questions like 'What's your perspective?'",
     "3 Validate others: 'I hear what you're saying, and...'" >>

\* "Rewrite aggressive message": the four substitutions, in order
RewriteAggressive(text) ==
  LET r1 == ReSubIgnoreCase(Phrase(<<"you", "always">>),
              W(<<"when", "this", "happens">>) \o <<",", " ">>
                \o W(<<"I", "feel">>), text)
      r2 == ReSubIgnoreCase(Phrase(<<"you", "never">>),
              W(<<"when", "this">>) \o <<" ", "doesn", "'", "t", " ">>
                \o <<"happen", ",", " ">> \o W(<<"I", "feel">>), r1)
      r3 == ReSubIgnoreCase(Phrase(<<"you", "should">>),
              <<"I", "'", "d", " ">>
                \o W(<<"appreciate", "if", "you", "could">>), r2)
  IN ReSubIgnoreCase(aggressive[4].pat, W(<<"I", "noticed">>), r3)

\* the three substitutions of the passive branch, in order
RewritePassive(text) ==
  LET r1 == ReSubIgnoreCase(Phrase(<<"i", "guess">>), W(<<"I", "think">>), text)
      r2 == ReSubIgnoreCase(Phrase(<<"maybe", "we", "could">>),
                            W(<<"I", "suggest", "we">>), r1)
  IN ReSubIgnoreCase(passive[3].pat, <<>>, r2)

\* "GENERATE COACHING": the template and the rewritten text of a style
TextCoaching(style) ==
  IF StyleHas(style, "AGGRESSIVE") THEN AggressiveCoaching
  ELSE IF StyleHas(style, "PASSIVE") THEN PassiveCoaching
  ELSE IF StyleHas(style, "ASSERTIVE") THEN AssertiveCoaching
  ELSE <<>>

Rewritten(style, text) ==
  IF StyleHas(style, "AGGRESSIVE") THEN RewriteAggressive(text)
  ELSE IF StyleHas(style, "PASSIVE") THEN RewritePassive(text)
  ELSE text

\* Mutant of AudioCoaching: every pause pattern but 'many_long' is advised to
\* add pauses, the natural one included.
AudioCoachingPausesAlways(af) ==
    (CASE af.volume.level = "loud" ->
            <<"Lower your volume slightly to sound less aggressive">>
       [] af.volume.level = "soft" ->
            <<"Speak louder to sound more confident">>
       [] OTHER -> <<>>)
 \o (CASE af.pace.level = "fast" ->
            <<"Slow down your speech - take breaths between sentences">>
       [] af.pace.level = "slow" ->
            <<"Increase pace slightly to maintain listener engagement">>
       [] OTHER -> <<>>)
 \o (IF af.pitch.variety = "monotone"
       THEN <<"Vary your pitch - emphasize key words for impact">> ELSE <<>>)
 \o (IF af.clarity.level = "unclear"
       THEN <<"Enunciate clearly - open your mouth more when speaking">>
       ELSE <<>>)
 \o (CASE af.pauses.level = "many_long" ->
            <<"Reduce long pauses - prepare your thoughts beforehand">>
       [] OTHER -> <<"Add strategic pauses to let ideas sink in">>)

\* "ADD AUDIO-SPECIFIC COACHING"
AudioCoaching(af) ==
    (CASE af.volume.level = "loud" ->
            <<"Lower your volume slightly to sound less aggressive">>
       [] af.volume.level = "soft" ->
            <<"Speak louder to sound more confident">>
       [] OTHER -> <<>>)
 \o (CASE af.pace.level = "fast" ->
            <<"Slow down your speech - take breaths between sentences">>
       [] af.pace.level = "slow" ->
            <<"Increase pace slightly to maintain listener engagement">>
       [] OTHER -> <<>>)
 \o (IF af.pitch.variety = "monotone"
       THEN <<"Vary your pitch - emphasize key words for impact">> ELSE <<>>)
 \o (IF af.clarity.level = "unclear"
       THEN <<"Enunciate clearly - open your mouth more when speaking">>
       ELSE <<>>)
 \o (CASE af.pauses.level = "many_long" ->
            <<"Reduce long pauses - prepare your thoughts beforehand">>
       [] af.pauses.level = "few" ->
            <<"Add strategic pauses to let ideas sink in">>
       [] OTHER -> <<>>)

\* Mutant of Coaching: the vocal block is opened for every profile that was
\* returned, a 'limited' one included.
CoachingForAnyProfile(style, audio_features) ==
  IF audio_features.status = "success" /\ AudioCoaching(audio_features) # <<>>
    THEN TextCoaching(style) \o <<"", "VOCAL COACHING:">>
           \o AudioCoaching(audio_features)
  ELSE IF audio_features.status = "limited"
    THEN TextCoaching(style) \o <<"", "VOCAL COACHING:">>
    ELSE TextCoaching(style)

Coaching(style, audio_features) ==
  IF audio_features.status = "success" /\ AudioCoaching(audio_features) # <<>>
    THEN TextCoaching(style) \o <<"", "VOCAL COACHING:">>
           \o AudioCoaching(audio_features)
    ELSE TextCoaching(style)

\* relationship_tips.get(relationship, "")
RelationshipTip(relationship) ==
  CASE relationship = "boss" ->
         "With your boss: Lead with solutions, not just problems. 'I noticed X, I suggest Y.'"
    [] relationship = "colleague" ->
         "With colleagues: Emphasize collaboration. 'How can we solve this together?'"
    [] relationship = "partner" ->
         "With your partner: Choose calm moments, avoid discussing issues when tired."
    [] relationship = "family" ->
         "With family: Acknowledge their perspective first, then share yours."
    [] relationship = "friend" ->
         "With friends: Be direct but kind. Good friends appreciate honesty."
    [] OTHER -> ""

\* f"{n}/10"
Fmt10(n) == <<n, "/10">>

\* Mutant of FinalAnalysis: the overall score is computed before the vocal
\* override.
FinalAnalysisStaleOverall(text, audio_features) ==
  LET t == TextAnalysis(text)
      a == VocalOverride(t, audio_features)
  IN [style |-> a.style, tone_score |-> a.tone_score,
      clarity_score |-> a.clarity_score,
      confidence_score |-> a.confidence_score,
      empathy_score |-> a.empathy_score, issues |-> a.issues,
      strengths |-> a.strengths, filler_words |-> a.filler_words,
      overall_score |-> OverallScore(t)]

\* The analysis of a text with the vocal profile of the call: classification,
\* override and overall score.
FinalAnalysis(text, audio_features) ==
  LET a == VocalOverride(TextAnalysis(text), audio_features)
  IN [style |-> a.style, tone_score |-> a.tone_score,
      clarity_score |-> a.clarity_score,
      confidence_score |-> a.confidence_score,
      empathy_score |-> a.empathy_score, issues |-> a.issues,
      strengths |-> a.strengths, filler_words |-> a.filler_words,
      overall_score |-> OverallScore(a)]

(***************************************************************************)
(* The state: the stores of core.py, the temporary files on disk, the       *)
(* clock, and the last call with what it returned.                          *)
(***************************************************************************)
VARIABLES
  user_journeys,  \* core.user_journeys: user_id -> UserJourney
  metrics,        \* core.metrics
  latencies,      \* core.latencies["interpersonal_coach"]
  temp_files,     \* the temporary .wav files that exist on disk
  clock,          \* time.time(), one tick a call
  req,            \* the arguments of the last call
  resp,           \* what the last call returned
  steps,          \* what the last call did to the audio, in order
  heap,           \* the UserJourney objects of the calls that run in threads
  threads         \* the calls that run in threads: where each one stands

vars == <<user_journeys, metrics, latencies, temp_files, clock, req, resp, steps, heap, threads>>

\* UserJourney(user_id=user_id, name=name), created at time t
UserJourney(user_id, name, t) ==
  [user_id |-> user_id, name |-> name, created_at |-> t,
   emotion_history |-> <<>>, stress_history |-> <<>>,
   streaks |-> [nutrition |-> 0, tasks |-> 0, games |-> 0, meditation |-> 0,
                communication |-> 0],
   badges |-> <<>>, total_points |-> 0, last_interaction |-> 0,
   game_scores |-> <<>>, communication_history |-> <<>>,
   meal_preferences |-> <<>>]

\* get_user(user_id): the store after the call
get_user(journeys, user_id, t) ==
  IF user_id \in DOMAIN journeys THEN journeys
  ELSE [u \in DOMAIN journeys \cup {user_id} |->
          IF u = user_id THEN UserJourney(user_id, "Friend", t)
          ELSE journeys[u]]

ErrorResult(message) == [status |-> "error", message |-> message]

valid_audio_extensions == {".wav", ".mp3", ".m4a", ".mp4", ".ogg", ".flac"}

\* os.path.splitext(audio_path)[1].lower()
LowerExt(ext) ==
  CASE ext = ".WAV" -> ".wav"
    [] ext = ".MP3" -> ".mp3"
    [] ext = ".AAC" -> ".aac"
    [] OTHER -> ext

MaxAudioBytes == 50 * 1024 * 1024

\* Mutant of Validate: the file is looked for before its extension is
\* checked.
ValidateExistsFirst(audio) ==
  IF ~audio.exists THEN Some("Audio file not found")
  ELSE IF LowerExt(audio.ext) \notin valid_audio_extensions
    THEN Some("Unsupported audio format")
  ELSE IF audio.size = 0 THEN Some("Audio file is empty")
  ELSE IF audio.size > MaxAudioBytes THEN Some("Audio file too large")
  ELSE None

\* "Add file validation": the message of the first check that fails, if any
Validate(audio) ==
  IF LowerExt(audio.ext) \notin valid_audio_extensions
    THEN Some("Unsupported audio format")
  ELSE IF ~audio.exists THEN Some("Audio file not found")
  ELSE IF audio.size = 0 THEN Some("Audio file is empty")
  ELSE IF audio.size > MaxAudioBytes THEN Some("Audio file too large")
  ELSE None

\* Mutant of AudioStage: an error of the feature extraction fails the
\* request.
AudioStageFeaturesFatal(text, audio) ==
  LET out(ret, txt, transcript, features, did, created) ==
        [ret |-> ret, text |-> txt, transcript |-> transcript,
         audio_features |-> features, steps |-> did, created |-> created]
      fail(message, did, created) ==
        out(Some(ErrorResult(message)), text, None, NoFeatures, did, created)
      converts == audio.ext # ".wav"
      pre == IF converts THEN <<"convert">> ELSE <<>>
      made == IF converts THEN 1 ELSE 0
  IN
  IF audio.path # "given" THEN out(None, text, None, NoFeatures, <<>>, 0)
  ELSE IF Validate(audio) # None THEN fail(Validate(audio)[1], <<>>, 0)
  ELSE IF converts /\ audio.convert = "load_ffmpeg"
    THEN fail("Could not convert audio. FFmpeg is required", pre, 0)
  ELSE IF converts /\ audio.convert = "load_other"
    THEN fail("Audio conversion failed", pre, 0)
  ELSE IF converts /\ audio.convert = "export_ffmpeg"
    THEN fail("Could not convert audio. FFmpeg is required", pre, 1)
  ELSE IF converts /\ audio.convert = "export_other"
    THEN fail("Audio conversion failed", pre, 1)
  ELSE IF audio.stt = "unknown_value"
    THEN fail("Could not understand the audio", pre \o <<"transcribe">>, made)
  ELSE IF audio.stt = "request_error"
    THEN fail("Speech recognition service is temporarily unavailable",
              pre \o <<"transcribe">>, made)
  ELSE IF audio.stt = "exception"
    THEN fail("Audio processing failed", pre \o <<"transcribe">>, made)
  ELSE LET af == analyze_audio_features(audio.m)
       IN IF af.status = "error"
            THEN fail("Audio processing failed",
                      pre \o <<"transcribe", "features">>, made)
            ELSE out(None, audio.transcript, Some(audio.transcript), af,
                     pre \o <<"transcribe", "features">>, made)

\* Mutant of AudioStage: a transcription that fails with a service error is
\* tried a second time, and the second attempt succeeds.
AudioStageRetriesTranscription(text, audio) ==
  LET out(ret, txt, transcript, features, did, created) ==
        [ret |-> ret, text |-> txt, transcript |-> transcript,
         audio_features |-> features, steps |-> did, created |-> created]
      fail(message, did, created) ==
        out(Some(ErrorResult(message)), text, None, NoFeatures, did, created)
      converts == audio.ext # ".wav"
      pre == IF converts THEN <<"convert">> ELSE <<>>
      made == IF converts THEN 1 ELSE 0
      again == IF audio.stt = "request_error" THEN <<"transcribe">> ELSE <<>>
  IN
  IF audio.path # "given" THEN out(None, text, None, NoFeatures, <<>>, 0)
  ELSE IF Validate(audio) # None THEN fail(Validate(audio)[1], <<>>, 0)
  ELSE IF converts /\ audio.convert = "load_ffmpeg"
    THEN fail("Could not convert audio. FFmpeg is required", pre, 0)
  ELSE IF converts /\ audio.convert = "load_other"
    THEN fail("Audio conversion failed", pre, 0)
  ELSE IF converts /\ audio.convert = "export_ffmpeg"
    THEN fail("Could not convert audio. FFmpeg is required", pre, 1)
  ELSE IF converts /\ audio.convert = "export_other"
    THEN fail("Audio conversion failed", pre, 1)
  ELSE IF audio.stt = "unknown_value"
    THEN fail("Could not understand the audio", pre \o <<"transcribe">>, made)
  ELSE IF audio.stt = "exception"
    THEN fail("Audio processing failed", pre \o <<"transcribe">>, made)
  ELSE LET af == analyze_audio_features(audio.m)
       IN out(None, audio.transcript, Some(audio.transcript),
              IF af.status = "error" THEN NoFeatures ELSE af,
              pre \o again \o <<"transcribe", "features">>, made)

\* Mutant of AudioStage: the transcript is used only when the caller gave no
\* text.
AudioStageKeepsCallerText(text, audio) ==
  LET out(ret, txt, transcript, features, did, created) ==
        [ret |-> ret, text |-> txt, transcript |-> transcript,
         audio_features |-> features, steps |-> did, created |-> created]
      fail(message, did, created) ==
        out(Some(ErrorResult(message)), text, None, NoFeatures, did, created)
      converts == audio.ext # ".wav"
      pre == IF converts THEN <<"convert">> ELSE <<>>
      made == IF converts THEN 1 ELSE 0
  IN
  IF audio.path # "given" THEN out(None, text, None, NoFeatures, <<>>, 0)
  ELSE IF Validate(audio) # None THEN fail(Validate(audio)[1], <<>>, 0)
  ELSE IF converts /\ audio.convert = "load_ffmpeg"
    THEN fail("Could not convert audio. FFmpeg is required", pre, 0)
  ELSE IF converts /\ audio.convert = "load_other"
    THEN fail("Audio conversion failed", pre, 0)
  ELSE IF converts /\ audio.convert = "export_ffmpeg"
    THEN fail("Could not convert audio. FFmpeg is required", pre, 1)
  ELSE IF converts /\ audio.convert = "export_other"
    THEN fail("Audio conversion failed", pre, 1)
  ELSE IF audio.stt = "unknown_value"
    THEN fail("Could not understand the audio", pre \o <<"transcribe">>, made)
  ELSE IF audio.stt = "request_error"
    THEN fail("Speech recognition service is temporarily unavailable",
              pre \o <<"transcribe">>, made)
  ELSE IF audio.stt = "exception"
    THEN fail("Audio processing failed", pre \o <<"transcribe">>, made)
  ELSE LET af == analyze_audio_features(audio.m)
       IN out(None, IF text # <<>> THEN text ELSE audio.transcript,
              Some(audio.transcript),
              IF af.status = "error" THEN NoFeatures ELSE af,
              pre \o <<"transcribe", "features">>, made)

\* The audio branch of analyze_interpersonal.  ret is the result returned
\* from inside the branch, if any; created tells whether a temporary file
\* was made.
AudioStage(text, audio) ==
  LET out(ret, txt, transcript, features, did, created) ==
        [ret |-> ret, text |-> txt, transcript |-> transcript,
         audio_features |-> features, steps |-> did, created |-> created]
      fail(message, did, created) ==
        out(Some(ErrorResult(message)), text, None, NoFeatures, did, created)
      converts == audio.ext # ".wav"
      pre == IF converts THEN <<"convert">> ELSE <<>>
      made == IF converts THEN 1 ELSE 0
  IN
  IF audio.path # "given" THEN out(None, text, None, NoFeatures, <<>>, 0)
  ELSE IF Validate(audio) # None THEN fail(Validate(audio)[1], <<>>, 0)
  ELSE IF converts /\ audio.convert = "load_ffmpeg"
    THEN fail("Could not convert audio. FFmpeg is required", pre, 0)
  ELSE IF converts /\ audio.convert = "load_other"
    THEN fail("Audio conversion failed", pre, 0)
  ELSE IF converts /\ audio.convert = "export_ffmpeg"
    THEN fail("Could not convert audio. FFmpeg is required", pre, 1)
  ELSE IF converts /\ audio.convert = "export_other"
    THEN fail("Audio conversion failed", pre, 1)
  ELSE IF audio.stt = "unknown_value"
    THEN fail("Could not understand the audio", pre \o <<"transcribe">>, made)
  ELSE IF audio.stt = "request_error"
    THEN fail("Speech recognition service is temporarily unavailable",
              pre \o <<"transcribe">>, made)
  ELSE IF audio.stt = "exception"
    THEN fail("Audio processing failed", pre \o <<"transcribe">>, made)
  ELSE LET af == analyze_audio_features(audio.m)
       IN out(None, audio.transcript, Some(audio.transcript),
              IF af.status = "error" THEN NoFeatures ELSE af,
              pre \o <<"transcribe", "features">>, made)

\* Mutant of NeedsInput: a call without input is answered as an error.
NeedsInputAsError ==
  [status |-> "error",
   message |-> "Friend, I can analyze your communication style!",
   features |-> <<"TEXT: Analyze word choice, tone, assertiveness",
                  "AUDIO: Analyze speech + volume + pace + clarity + pitch + confidence">>,
   options |-> <<"Type: 'Analyze: [what you want to say]'",
                 "Upload audio file (WAV recommended, also supports MP3, M4A, MP4, OGG, FLAC)">>,
   examples |-> <<"Analyze: You always ignore my suggestions",
                  "Analyze: I feel frustrated when meetings run late">>,
   audio_tips |-> "For best results with audio: Use WAV format, speak clearly, minimize background noise"]

\* if not text: return {"status": "needs_input", ...}
NeedsInput ==
  [status |-> "needs_input",
   message |-> "Friend, I can analyze your communication style!",
   features |-> <<"TEXT: Analyze word choice, tone, assertiveness",
                  "AUDIO: Analyze speech + volume + pace + clarity + pitch + confidence">>,
   options |-> <<"Type: 'Analyze: [what you want to say]'",
                 "Upload audio file (WAV recommended, also supports MP3, M4A, MP4, OGG, FLAC)">>,
   examples |-> <<"Analyze: You always ignore my suggestions",
                  "Analyze: I feel frustrated when meetings run late">>,
   audio_tips |-> "For best results with audio: Use WAV format, speak clearly, minimize background noise"]

\* result["vocal_analysis"]
VocalAnalysis(af) ==
  [duration |-> af.duration_seconds,
   volume |-> [level |-> af.volume.level, note |-> af.volume.note,
               score |-> Fmt10(af.volume.score)],
   pace |-> [level |-> af.pace.level, rate |-> af.pace.syllables_per_sec,
             note |-> af.pace.note, score |-> Fmt10(af.pace.score)],
   pitch |-> [level |-> af.pitch.level, variety |-> af.pitch.variety,
              note |-> af.pitch.note, score |-> Fmt10(af.pitch.score)],
   clarity |-> [level |-> af.clarity.level, note |-> af.clarity.note,
                score |-> Fmt10(af.clarity.score)],
   pauses |-> [pattern |-> af.pauses.level,
               average |-> af.pauses.average_seconds,
               note |-> af.pauses.note],
   confidence_score |-> Fmt10(af.confidence_score),
   emotional_tone |-> af.emotional_tone,
   overall_vocal_score |-> Fmt10(af.overall_score)]

\* "Build result", for the user record as updated by the call
AnalyzedResult(a, text, transcript, audio_features, relationship, user) ==
  LET rewritten == Rewritten(a.style, text)
  IN [status |-> "analyzed",
      original_message |-> text,
      transcribed_from_audio |-> (transcript # None),
      analysis |-> [style |-> a.style,
                    scores |-> [tone |-> Fmt10(a.tone_score),
                                clarity |-> Fmt10(a.clarity_score),
                                confidence |-> Fmt10(a.confidence_score),
                                empathy |-> Fmt10(a.empathy_score),
                                overall |-> Fmt10(a.overall_score)],
                    issues |-> a.issues,
                    strengths |-> a.strengths,
                    filler_words |-> a.filler_words],
      coaching |-> Coaching(a.style, audio_features),
      rewritten_message |-> IF rewritten # text THEN Some(rewritten) ELSE None,
      relationship_tip |-> RelationshipTip(relationship),
      stats |-> [streak |-> user.streaks.communication, points_earned |-> 15,
                 total_points |-> user.total_points],
      vocal_analysis |-> IF audio_features.status = "success"
                           THEN Some(VocalAnalysis(audio_features)) ELSE None]

\* "Update user stats"
UpdatedUser(user, a, audio, t) ==
  [user EXCEPT
     !.streaks.communication = user.streaks.communication + 1,
     !.total_points = user.total_points + 15,
     !.communication_history =
        Append(user.communication_history,
               [timestamp |-> t, score |-> a.overall_score,
                style |-> a.style, had_audio |-> (audio.path # "None")])]

(***************************************************************************)
(* One call of analyze_interpersonal(user_id, text, audio_path,             *)
(* relationship), from get_user to the return.                              *)
(***************************************************************************)
\* Mutant of Body: the analysis record outlives the call, so the issues of
\* the user's earlier calls are still in it (as many as the history is long).
BodyKeepsAnalysis(before, t, user_id, text, audio, relationship) ==
  LET journeys == get_user(before, user_id, t)
      stage == AudioStage(text, audio)
      fresh == FinalAnalysis(stage.text, stage.audio_features)
      a == [fresh EXCEPT
              !.issues = [i \in 1..Len(journeys[user_id].communication_history)
                            |-> <<"x", "left over">>] \o fresh.issues]
      user == UpdatedUser(journeys[user_id], a, audio, t)
  IN IF stage.ret # None
       THEN [analyzed |-> FALSE, journeys |-> journeys, steps |-> stage.steps,
             created |-> stage.created, result |-> stage.ret[1]]
     ELSE IF stage.text = <<>>
       THEN [analyzed |-> FALSE, journeys |-> journeys, steps |-> stage.steps,
             created |-> stage.created, result |-> NeedsInput]
     ELSE [analyzed |-> TRUE,
           journeys |-> [journeys EXCEPT ![user_id] = user],
           steps |-> stage.steps, created |-> stage.created,
           result |-> AnalyzedResult(a, stage.text, stage.transcript,
                                     stage.audio_features, relationship, user)]

\* Mutant of Body: the user's statistics are updated before the check for
\* an empty text, so a call without input counts as well.
BodyUpdatesWithoutInput(before, t, user_id, text, audio, relationship) ==
  LET journeys == get_user(before, user_id, t)
      stage == AudioStage(text, audio)
      a == FinalAnalysis(stage.text, stage.audio_features)
      user == UpdatedUser(journeys[user_id], a, audio, t)
  IN IF stage.ret # None
       THEN [analyzed |-> FALSE, journeys |-> journeys, steps |-> stage.steps,
             created |-> stage.created, result |-> stage.ret[1]]
     ELSE IF stage.text = <<>>
       THEN [analyzed |-> FALSE,
             journeys |-> [journeys EXCEPT ![user_id] = user],
             steps |-> stage.steps,
             created |-> stage.created, result |-> NeedsInput]
     ELSE [analyzed |-> TRUE,
           journeys |-> [journeys EXCEPT ![user_id] = user],
           steps |-> stage.steps, created |-> stage.created,
           result |-> AnalyzedResult(a, stage.text, stage.transcript,
                                     stage.audio_features, relationship, user)]

\* The body of the function, run on the store `before` at time t: what it
\* returns and what it leaves in the store.
Body(before, t, user_id, text, audio, relationship) ==
  LET journeys == get_user(before, user_id, t)
      stage == AudioStage(text, audio)
      a == FinalAnalysis(stage.text, stage.audio_features)
      user == UpdatedUser(journeys[user_id], a, audio, t)
  IN IF stage.ret # None
       THEN [analyzed |-> FALSE, journeys |-> journeys, steps |-> stage.steps,
             created |-> stage.created, result |-> stage.ret[1]]
     ELSE IF stage.text = <<>>
       THEN [analyzed |-> FALSE, journeys |-> journeys, steps |-> stage.steps,
             created |-> stage.created, result |-> NeedsInput]
     ELSE [analyzed |-> TRUE,
           journeys |-> [journeys EXCEPT ![user_id] = user],
           steps |-> stage.steps, created |-> stage.created,
           result |-> AnalyzedResult(a, stage.text, stage.transcript,
                                     stage.audio_features, relationship, user)]

analyze_interpersonal(user_id, text, audio, relationship) ==
  \E r \in {Body(user_journeys, clock, user_id, text, audio, relationship)} :
     /\ req' = [user_id |-> user_id, text |-> text, audio |-> audio,
                relationship |-> relationship]
     /\ clock' = clock + 1
     /\ steps' = r.steps
     /\ temp_files' = temp_files + r.created
     /\ user_journeys' = r.journeys
     /\ metrics' = [metrics EXCEPT
          !.new_users =
             @ + (IF user_id \in DOMAIN user_journeys THEN 0 ELSE 1),
          !.communication_analyses = @ + (IF r.analyzed THEN 1 ELSE 0)]
     /\ latencies' = IF r.analyzed THEN Append(latencies, 0) ELSE latencies
     /\ resp' = r.result
     /\ UNCHANGED <<heap, threads>>

(***************************************************************************)
(* The inputs of the calls.                                                 *)
(***************************************************************************)
\* The phrases the generated texts are made of.
Vocabulary ==
  << W(<<"You", "always", "ignore", "my", "suggestions">>),
     W(<<"You", "never", "listen", "to", "me">>),
     W(<<"you", "should", "know", "better">>),
     <<"Why", " ", "didn", "'", "t", " ">> \o W(<<"you", "call">>),
     <<"What", "'", "s", " ">> \o W(<<"wrong", "with", "you">>),
     W(<<"you", "need", "to", "stop">>),
     <<"you", "'", "re", " ">> \o W(<<"being", "lazy">>),
     W(<<"I", "guess", "maybe", "we", "could", "wait">>),
     <<"Sorry", ",", " ">> \o W(<<"but", "I", "disagree">>),
     W(<<"I", "feel", "frustrated", "when", "meetings", "run", "late">>),
     W(<<"I", "think", "I", "need", "a", "break">>),
     <<"Let", "'", "s", " ", "talk">>,
     W(<<"I", "understand", "your", "view">>),
     W(<<"I", "appreciate", "your", "help">>),
     W(<<"Well", "um", "I", "was", "basically", "like", "literally", "lost">>),
     W(<<"it", "was", "you", "know", "actually", "fine">>),
     W(<<"Honestly", "it", "is", "fine">>),
     W(<<"The", "report", "is", "ready">>) >>

\* The increasing sequences of k indices of the vocabulary, from lo on.
RECURSIVE Picks(_, _)
Picks(k, lo) ==
  IF k = 0 THEN {<<>>}
  ELSE UNION { { <<i>> \o s : s \in Picks(k - 1, i + 1) } :
                 i \in lo..Len(Vocabulary) }

\* The phrases of a pick as sentences: "phrase. phrase. phrase"
RECURSIVE Sentences(_)
Sentences(pick) ==
  IF Len(pick) = 0 THEN <<>>
  ELSE IF Len(pick) = 1 THEN Vocabulary[pick[1]]
  ELSE Vocabulary[pick[1]] \o <<".", " ">> \o Sentences(Tail(pick))

PhraseTexts == { Sentences(pick) : pick \in UNION { Picks(k, 1) : k \in 0..MaxPhrases } }

Text(pick) == Sentences(pick)

NoAudio ==
  [path |-> "None", ext |-> "", exists |-> FALSE, size |-> 0,
   convert |-> "ok", stt |-> "ok", transcript |-> <<>>,
   m |-> [outcome |-> "exception"]]

AudioFile(ext, exists, size, convert, stt, transcript, m) ==
  [path |-> "given", ext |-> ext, exists |-> exists, size |-> size,
   convert |-> convert, stt |-> stt, transcript |-> transcript, m |-> m]

\* What librosa measures on a recording.
Measured(duration, avg_volume, volume_variation, num_onsets, has_pitch, avg_pitch, pitch_variation, avg_zcr, num_segments, voiced) ==
  [outcome |-> "ok", duration |-> duration, avg_volume |-> avg_volume,
   volume_variation |-> volume_variation, num_onsets |-> num_onsets,
   has_pitch |-> has_pitch, avg_pitch |-> avg_pitch,
   pitch_variation |-> pitch_variation, avg_zcr |-> avg_zcr,
   num_segments |-> num_segments, voiced |-> voiced]

\* Ten seconds of speech in every combination of levels: soft, quiet (under
\* 0.05 but not soft), moderate and loud; slow, moderate and fast; no pitch,
\* low, medium and high, monotone and expressive; unclear, moderate and clear;
\* few, natural and long pauses.
Recordings ==
  { Measured(100, v, 20, n, p[1], p[2], p[3], z, 4, 100 - g) :
      v \in {20, 40, 100, 200}, n \in {15, 30, 50},
      p \in {<<FALSE, 0, 0>>, <<TRUE, 80, 20>>, <<TRUE, 150, 80>>,
             <<TRUE, 250, 80>>, <<TRUE, 80, 80>>},
      z \in {20, 100, 200}, g \in {6, 30, 60} }
  \cup { [outcome |-> "import_error"], [outcome |-> "exception"],
         Measured(3, 100, 20, 1, TRUE, 150, 80, 100, 1, 3) }

\* The transcripts of the recordings: one text of each style.
Transcripts ==
  { Text(<<18>>), Text(<<1>>), Text(<<1, 2>>), Text(<<8>>), Text(<<11, 13>>),
    Text(<<12>>), Text(<<15>>) }

\* The threads that call analyze_interpersonal at the same time.
Threads == 1..MaxCalls

\* A thread that has not called yet: user is the UserJourney object the call
\* holds (its position in heap.objects), tmp the value it has read and not
\* yet written back.
Idle == [pc |-> "idle", user |-> 0, tmp |-> 0, result |-> [status |-> "none"]]

Init ==
  /\ user_journeys = <<>>
  /\ metrics = [new_users |-> 0, communication_analyses |-> 0]
  /\ latencies = <<>>
  /\ temp_files = 0
  /\ clock = 0
  /\ req = [user_id |-> "", text |-> <<>>, audio |-> NoAudio,
            relationship |-> ""]
  /\ resp = [status |-> "none"]
  /\ steps = <<>>
  /\ heap = [objects |-> <<>>, slot |-> <<>>]
  /\ threads = [t \in Threads |-> Idle]

(***************************************************************************)
(* A session: calls of two users, with and without a recording.             *)
(***************************************************************************)
SessionUsers == {"u1", "u2"}

SessionTexts == {<<>>, Text(<<1>>), Text(<<11>>), Text(<<16>>)}

SessionAudios ==
  { NoAudio,
    AudioFile(".wav", TRUE, 1000, "ok", "ok", Text(<<1, 2>>),
              Measured(100, 40, 20, 15, TRUE, 80, 20, 100, 4, 70)),
    AudioFile(".mp3", TRUE, 1000, "ok", "ok", Text(<<11, 13>>),
              Measured(100, 200, 60, 50, TRUE, 250, 80, 200, 4, 94)),
    AudioFile(".aac", TRUE, 1000, "ok", "ok", Text(<<18>>),
              [outcome |-> "exception"]) }

Call ==
  /\ clock < MaxCalls
  /\ \E user_id \in SessionUsers, text \in SessionTexts,
        audio \in SessionAudios, relationship \in {"boss"} :
       analyze_interpersonal(user_id, text, audio, relationship)

Next == Call

Spec == Init /\ [][Next]_vars

(***************************************************************************)
(* One call on a typed message: every text of at most MaxPhrases phrases.   *)
(***************************************************************************)
CallText ==
  /\ clock = 0
  /\ \E text \in PhraseTexts, relationship \in {"colleague"} :
       analyze_interpersonal("u1", text, NoAudio, relationship)

NextText == CallText

SpecText == Init /\ [][NextText]_vars

(***************************************************************************)
(* One call on a recording: every measured profile with every transcript.   *)
(***************************************************************************)
CallAudio ==
  /\ clock = 0
  /\ \E transcript \in Transcripts, m \in Recordings, ext \in {".wav"} :
       analyze_interpersonal("u1", <<>>,
         AudioFile(ext, TRUE, 1000, "ok", "ok", transcript, m), "partner")

NextAudio == CallAudio

SpecAudio == Init /\ [][NextAudio]_vars

(***************************************************************************)
(* Two calls on typed messages that differ in their filler words.           *)
(***************************************************************************)
FillerPhrases == {15, 16, 17, 18}

FillerTexts ==
  { Text(pick) : pick \in { q \in UNION { Picks(k, 1) : k \in 0..MaxPhrases } :
                              \A i \in 1..Len(q) : q[i] \in FillerPhrases } }

CallPair ==
  /\ clock < 2
  /\ \E user_id \in SessionUsers, text \in FillerTexts :
       analyze_interpersonal(user_id, text, NoAudio, "friend")

NextPair == CallPair

SpecPair == Init /\ [][NextPair]_vars

(***************************************************************************)
(* One call of analyze_audio_features on its own: the recordings above,     *)
(* recordings around the minimum duration, and recordings whose             *)
(* measurements sit on the thresholds of the levels.                        *)
(***************************************************************************)
ShortRecordings ==
  { Measured(d, 100, 20, 2, TRUE, 150, 80, 100, 1, d) : d \in {0, 1, 4, 5, 6} }
  \cup { [Measured(d, 100, 20, 2, TRUE, 150, 80, 100, 1, d)
            EXCEPT !.outcome = o] :
           d \in {4, 5}, o \in {"import_error", "exception"} }

ThresholdRecordings ==
  { Measured(100, v, 50, n, TRUE, p, 50, z, 3, 100 - g) :
      v \in {0, 29, 30, 49, 50, 150, 151}, n \in {19, 20, 40, 41},
      p \in {99, 100, 220, 221}, z \in {49, 50, 150, 151},
      g \in {10, 11, 30, 31} }

\* Recordings of silence, of one and of ten seconds: no energy, no onset, no
\* pitch estimate, no zero crossing.  librosa.effects.split measures the
\* frames against their own maximum, so it returns either no interval at all
\* or the whole buffer as one interval.
SilentRecordings ==
  { Measured(d, 0, 0, 0, FALSE, 0, 0, 0, seg[1], seg[2] * d) :
      d \in {10, 100}, seg \in {<<0, 0>>, <<1, 1>>} }

FeatureInputs ==
  Recordings \cup ShortRecordings \cup ThresholdRecordings
    \cup SilentRecordings

\* features = analyze_audio_features(audio_path), on the recording measured m
extract_features(m) ==
  /\ req' = [user_id |-> "", text |-> <<>>,
             audio |-> AudioFile(".wav", TRUE, 1000, "ok", "ok", <<>>, m),
             relationship |-> ""]
  /\ resp' = analyze_audio_features(m)
  /\ clock' = clock + 1
  /\ UNCHANGED <<user_journeys, metrics, latencies, temp_files, steps>>
  /\ UNCHANGED <<heap, threads>>

CallFeatures ==
  /\ clock = 0
  /\ \E m \in FeatureInputs : extract_features(m)

NextFeatures == CallFeatures

SpecFeatures == Init /\ [][NextFeatures]_vars

(***************************************************************************)
(* One call on a file that may fail validation: supported and unsupported   *)
(* extensions in both cases, files missing, empty, at and over the size     *)
(* limit, and every outcome of the conversion and of the transcription.     *)
(***************************************************************************)
FileExtensions == {".wav", ".mp3", ".MP3", ".aac", ".AAC"}

\* a file that is missing has no size: 0 stands for it
FileSizes(exists) ==
  IF exists THEN {0, 1000, MaxAudioBytes, MaxAudioBytes + 1} ELSE {0}

CallFile ==
  /\ clock = 0
  /\ \E ext \in FileExtensions, exists \in BOOLEAN,
        convert \in {"ok", "load_ffmpeg", "load_other", "export_ffmpeg",
                     "export_other"},
        stt \in {"ok", "unknown_value", "request_error", "exception"},
        text \in {<<>>, Text(<<18>>)} :
       \E size \in FileSizes(exists) :
         analyze_interpersonal("u1", text,
           AudioFile(ext, exists, size, convert, stt, Text(<<11, 13>>),
                     Measured(100, 100, 20, 30, TRUE, 150, 80, 200, 4, 70)),
           "family")

NextFile == CallFile

SpecFile == Init /\ [][NextFile]_vars

(***************************************************************************)
(* One call on a short typed message: every text of fewer than MaxPhrases   *)
(* phrases, addressed to a boss or to nobody in particular.                 *)
(***************************************************************************)
ShortTexts ==
  { Text(pick) : pick \in UNION { Picks(k, 1) : k \in 0..(MaxPhrases - 1) } }

CallStyle ==
  /\ clock = 0
  /\ \E text \in ShortTexts, relationship \in {"boss", "stranger"} :
       analyze_interpersonal("u2", text, NoAudio, relationship)

NextStyle == CallStyle

SpecStyle == Init /\ [][NextStyle]_vars

(***************************************************************************)
(* One call on a typed message built around one filler of the vocabulary:   *)
(* the filler alone, at the start, at the end and in the middle of the      *)
(* text, next to a comma, a full stop, a question mark and a line break,    *)
(* and as the beginning of a longer word.                                   *)
(***************************************************************************)
\* a longer word that begins with the filler, in the order of `fillers`
LongerWords ==
  << <<"umbrella">>, <<"uhh">>, <<"likely">>, <<"you", " ", "knowingly">>,
     <<"basically2">>, <<"literallyish">>, <<"actuallyish">>,
     <<"honestlyish">> >>

ItIsFine == <<"it", " ", "is", " ", "fine">>

TextsAround(f) ==
  { f,
    f \o <<" ">> \o ItIsFine,
    ItIsFine \o <<" ">> \o f,
    <<"it", " ", "was", " ">> \o f \o <<" ", "fine">>,
    f \o <<",", " ">> \o ItIsFine,
    ItIsFine \o <<" ">> \o f \o <<".">>,
    <<"it", " ", "was", ",", " ">> \o f \o <<",", " ", "fine">>,
    ItIsFine \o <<",", " ">> \o f \o <<"?">>,
    ItIsFine \o <<"\n">> \o f \o <<" ">> \o ItIsFine }

FillerContexts ==
  UNION { TextsAround(fillers[k]) \cup TextsAround(LongerWords[k]) :
            k \in DOMAIN fillers }

CallFiller ==
  /\ clock = 0
  /\ \E text \in FillerContexts :
       analyze_interpersonal("u1", text, NoAudio, "friend")

NextFiller == CallFiller

SpecFiller == Init /\ [][NextFiller]_vars

(***************************************************************************)
(* Calls that run at the same time, one in each thread, all of the same     *)
(* user and on the same typed message.  A thread can be suspended between   *)
(* any two accesses to the stores of core.py: there is no lock in           *)
(* get_user, in metric_inc or around the update of the user's statistics,   *)
(* and `x[k] = x.get(k, 0) + 1` and `x.n += 15` are each a read followed    *)
(* by a write.  heap.objects holds the UserJourney objects that were        *)
(* created, heap.slot the one of them that core.user_journeys points to     *)
(* for a user; user_journeys is what the dictionary shows.                  *)
(***************************************************************************)
ConcurrentUser == "u1"

ConcurrentText == Text(<<11>>)

\* the analysis of the message: it reads no shared state
ConcurrentAnalysis == FinalAnalysis(ConcurrentText, NoFeatures)

\* core.user_journeys as a dictionary from user ids to records
View(h) == [u \in DOMAIN h.slot |-> h.objects[h.slot[u]]]

\* thread t moves on to pc
Goto(t, pc) == [threads EXCEPT ![t].pc = pc]

\* thread t moves on to pc after writing back the value it had read
Forget(t, pc) == [threads EXCEPT ![t].pc = pc, ![t].tmp = 0]

\* get_user: if user_id not in user_journeys
get_user_test(t) ==
  /\ threads[t].pc = "idle"
  /\ threads' = Goto(t, IF ConcurrentUser \in DOMAIN heap.slot
                          THEN "return_user" ELSE "create_user")
  /\ UNCHANGED <<heap, user_journeys, metrics, latencies, temp_files, clock,
                 req, resp, steps>>

\* get_user: user_journeys[user_id] = UserJourney(user_id=user_id, name=name)
get_user_create(t) ==
  /\ threads[t].pc = "create_user"
  /\ heap' = [objects |-> Append(heap.objects,
                                 UserJourney(ConcurrentUser, "Friend", clock)),
              slot |-> [u \in DOMAIN heap.slot \cup {ConcurrentUser} |->
                          IF u = ConcurrentUser THEN Len(heap.objects) + 1
                          ELSE heap.slot[u]]]
  /\ user_journeys' = View(heap')
  /\ threads' = Goto(t, "new_users_load")
  /\ UNCHANGED <<metrics, latencies, temp_files, clock, req, resp, steps>>

\* the metric that the thread is about to count
MetricAt(pc) ==
  IF pc \in {"new_users_load", "new_users_store"} THEN "new_users"
  ELSE "communication_analyses"

\* metric_inc: metrics[name] += amt, the read
metric_inc_load(t) ==
  /\ threads[t].pc \in {"new_users_load", "analyses_load"}
  /\ threads' = [threads EXCEPT
       ![t].tmp = metrics[MetricAt(threads[t].pc)],
       ![t].pc = IF threads[t].pc = "new_users_load" THEN "new_users_store"
                 ELSE "analyses_store"]
  /\ UNCHANGED <<heap, user_journeys, metrics, latencies, temp_files, clock,
                 req, resp, steps>>

\* metric_inc: metrics[name] += amt, the write
metric_inc_store(t) ==
  /\ threads[t].pc \in {"new_users_store", "analyses_store"}
  /\ metrics' = [metrics EXCEPT
       ![MetricAt(threads[t].pc)] = threads[t].tmp + 1]
  /\ threads' = Forget(t, IF threads[t].pc = "new_users_store"
                            THEN "return_user" ELSE "return")
  /\ UNCHANGED <<heap, user_journeys, latencies, temp_files, clock, req, resp,
                 steps>>

\* get_user: return user_journeys[user_id]
get_user_return(t) ==
  /\ threads[t].pc = "return_user"
  /\ threads' = [threads EXCEPT ![t].user = heap.slot[ConcurrentUser],
                                ![t].pc = "streak_load"]
  /\ UNCHANGED <<heap, user_journeys, metrics, latencies, temp_files, clock,
                 req, resp, steps>>

\* the heap after thread t has written its user object
Written(t, object) == [heap EXCEPT !.objects[threads[t].user] = object]

\* user.streaks.get("communication", 0)
streak_load(t) ==
  /\ threads[t].pc = "streak_load"
  /\ threads' = [threads EXCEPT
       ![t].tmp = heap.objects[threads[t].user].streaks.communication,
       ![t].pc = "streak_store"]
  /\ UNCHANGED <<heap, user_journeys, metrics, latencies, temp_files, clock,
                 req, resp, steps>>

\* user.streaks["communication"] = ... + 1
streak_store(t) ==
  /\ threads[t].pc = "streak_store"
  /\ heap' = Written(t, [heap.objects[threads[t].user] EXCEPT
                           !.streaks.communication = threads[t].tmp + 1])
  /\ user_journeys' = View(heap')
  /\ threads' = Forget(t, "points_load")
  /\ UNCHANGED <<metrics, latencies, temp_files, clock, req, resp, steps>>

\* user.total_points += 15, the read
points_load(t) ==
  /\ threads[t].pc = "points_load"
  /\ threads' = [threads EXCEPT
       ![t].tmp = heap.objects[threads[t].user].total_points,
       ![t].pc = "points_store"]
  /\ UNCHANGED <<heap, user_journeys, metrics, latencies, temp_files, clock,
                 req, resp, steps>>

\* user.total_points += 15, the write
points_store(t) ==
  /\ threads[t].pc = "points_store"
  /\ heap' = Written(t, [heap.objects[threads[t].user] EXCEPT
                           !.total_points = threads[t].tmp + 15])
  /\ user_journeys' = View(heap')
  /\ threads' = Forget(t, "append")
  /\ UNCHANGED <<metrics, latencies, temp_files, clock, req, resp, steps>>

\* user.communication_history.append({...}): list.append is one step
history_append(t) ==
  /\ threads[t].pc = "append"
  /\ heap' = Written(t, [heap.objects[threads[t].user] EXCEPT
       !.communication_history =
          Append(@, [timestamp |-> clock,
                     score |-> ConcurrentAnalysis.overall_score,
                     style |-> ConcurrentAnalysis.style,
                     had_audio |-> FALSE])])
  /\ user_journeys' = View(heap')
  /\ threads' = Goto(t, "build")
  /\ UNCHANGED <<metrics, latencies, temp_files, clock, req, resp, steps>>

\* "Build result": the statistics are read from the user object
build_result(t) ==
  /\ threads[t].pc = "build"
  /\ threads' = [threads EXCEPT
       ![t].result = AnalyzedResult(ConcurrentAnalysis, ConcurrentText, None,
                                    NoFeatures, "colleague",
                                    heap.objects[threads[t].user]),
       ![t].pc = "analyses_load"]
  /\ UNCHANGED <<heap, user_journeys, metrics, latencies, temp_files, clock,
                 req, resp, steps>>

\* metric_time("interpersonal_coach", ...) and return result
return_result(t) ==
  /\ threads[t].pc = "return"
  /\ latencies' = Append(latencies, 0)
  /\ req' = [user_id |-> ConcurrentUser, text |-> ConcurrentText,
             audio |-> NoAudio, relationship |-> "colleague"]
  /\ resp' = threads[t].result
  /\ clock' = clock + 1
  /\ threads' = [threads EXCEPT ![t] = [Idle EXCEPT !.pc = "done"]]
  /\ UNCHANGED <<heap, user_journeys, metrics, temp_files, steps>>

NextThreads ==
  \E t \in Threads :
    \/ get_user_test(t)
    \/ get_user_create(t)
    \/ metric_inc_load(t)
    \/ metric_inc_store(t)
    \/ get_user_return(t)
    \/ streak_load(t)
    \/ streak_store(t)
    \/ points_load(t)
    \/ points_store(t)
    \/ history_append(t)
    \/ build_result(t)
    \/ return_result(t)

SpecThreads == Init /\ [][NextThreads]_vars

(***************************************************************************)
(* What the properties read in the state.                                   *)
(***************************************************************************)
Analyzed == resp.status = "analyzed"

\* the last call had no recording to work on
TextMode == req.audio.path # "given"

\* the text that was classified, and its four counts
Classified == resp.original_message

Style == resp.analysis.style
Tone == resp.analysis.scores.tone[1]
Clarity == resp.analysis.scores.clarity[1]
Confidence == resp.analysis.scores.confidence[1]
Empathy == resp.analysis.scores.empathy[1]
Overall == resp.analysis.scores.overall[1]
FillerCount == Len(resp.analysis.filler_words)

\* the vocal profile of the last call's recording, and whether it is one
\* with status 'success'
Profile == analyze_audio_features(req.audio.m)
Fused == req.audio.path = "given" /\ Profile.status = "success"

StartsWith(toks, prefix) == HasAt(toks, 1, prefix)

\* the four counts of the classified text, and the scores of the text alone
LastCounts == {Counts(Classified)}
TextOnly == {TextAnalysis(Classified)}

(***************************************************************************)
(* C1.  The style of a typed message is the one of the first branch its     *)
(* counts satisfy, in the order aggressive >= 2, aggressive = 1,            *)
(* passive >= 2, assertive >= 2 and empathetic >= 1, assertive >= 1,        *)
(* neutral, with the scores that branch sets.                               *)
(***************************************************************************)
C1_FirstBranchWins ==
  Analyzed =>
    \A c \in LastCounts :
       IF c.aggressive >= 2 THEN Style = AGGRESSIVE /\ Tone = 3
       ELSE IF c.aggressive = 1 THEN Style = SOMEWHAT_AGGRESSIVE /\ Tone = 5
       ELSE IF c.passive >= 2
         THEN Style = PASSIVE /\ Tone = 5 /\ Confidence = 3
       ELSE IF c.assertive >= 2 /\ c.empathetic >= 1
         THEN Style = ASSERTIVE_EMPATHETIC /\ Tone = 9 /\ Confidence = 8
              /\ Empathy = 8
       ELSE IF c.assertive >= 1
         THEN Style = ASSERTIVE /\ Tone = 8 /\ Confidence = 7
       ELSE Style = NEUTRAL

\* a message that satisfies a later branch as well as the one that wins
C1_Witness ==
  /\ Analyzed
  /\ Style = SOMEWHAT_AGGRESSIVE
  /\ \E c \in LastCounts :
        c.aggressive = 1 /\ c.passive >= 2 /\ c.assertive >= 1

(***************************************************************************)
(* C2.  As claimed: with at least 2 assertive and at least 1 empathetic     *)
(* match the style is ASSERTIVE_EMPATHETIC whatever the other counts are.   *)
(***************************************************************************)
C2_Original ==
  Analyzed =>
    \A c \in LastCounts :
      (c.assertive >= 2 /\ c.empathetic >= 1)
        => Style = ASSERTIVE_EMPATHETIC

\* C2 as amended: with at least 2 assertive and at least 1 empathetic match,
\* no aggressive match and fewer than 2 passive matches, the style is
\* ASSERTIVE_EMPATHETIC.
C2_AssertiveEmpathetic ==
  Analyzed =>
    \A c \in LastCounts :
      (c.assertive >= 2 /\ c.empathetic >= 1 /\ c.aggressive = 0
         /\ c.passive < 2)
        => Style = ASSERTIVE_EMPATHETIC

C2_Witness ==
  /\ Analyzed
  /\ Style = ASSERTIVE_EMPATHETIC
  /\ \E c \in LastCounts :
        c.assertive >= 2 /\ c.empathetic >= 1 /\ c.aggressive = 0
          /\ c.passive = 1

(***************************************************************************)
(* C3.  As claimed: with at least 2 aggressive matches and no assertive     *)
(* match the result has style AGGRESSIVE and tone 3, with or without a      *)
(* vocal profile.                                                           *)
(***************************************************************************)
C3_Original ==
  Analyzed =>
    \A c \in LastCounts :
      (c.aggressive >= 2 /\ c.assertive = 0)
        => (Style = AGGRESSIVE /\ Tone = 3)

\* C3 as amended: the style is AGGRESSIVE, and the tone is 3 unless a
\* successful vocal profile with a calm emotional tone is fused in, and
\* then it is 7.
C3_AggressiveTone ==
  Analyzed =>
    \A c \in LastCounts :
      (c.aggressive >= 2 /\ c.assertive = 0)
        => /\ Style = AGGRESSIVE
           /\ Tone = IF Fused /\ Profile.emotional_tone = "calm/sad"
                       THEN 7 ELSE 3

\* an aggressive transcript spoken in an agitated voice
C3_Witness ==
  /\ Analyzed
  /\ Fused
  /\ Profile.emotional_tone = "agitated/stressed"
  /\ Tone = 3
  /\ \E c \in LastCounts : c.aggressive >= 2 /\ c.assertive = 0

(***************************************************************************)
(* C4.  As claimed: "You always ignore my suggestions" is AGGRESSIVE with   *)
(* tone 3 and its rewritten message starts with "when this happens, I       *)
(* feel".                                                                   *)
(***************************************************************************)
YouAlwaysIgnore == <<"You", " ", "always", " ", "ignore", " ", "my", " ", "suggestions">>

WhenThisHappens == <<"when", " ", "this", " ", "happens", ",", " ", "I", " ", "feel">>

C4_Original ==
  (Analyzed /\ TextMode /\ req.text = YouAlwaysIgnore)
    => /\ Style = AGGRESSIVE
       /\ Tone = 3
       /\ resp.rewritten_message # None
       /\ StartsWith(resp.rewritten_message[1], WhenThisHappens)

\* C4 as amended: the text matches one aggressive rule, so it is
\* SOMEWHAT_AGGRESSIVE with tone 5; its rewritten message starts with "when
\* this happens, I feel".
C4_YouAlways ==
  (Analyzed /\ TextMode /\ req.text = YouAlwaysIgnore)
    => /\ Style = SOMEWHAT_AGGRESSIVE
       /\ Tone = 5
       /\ resp.rewritten_message # None
       /\ StartsWith(resp.rewritten_message[1], WhenThisHappens)

C4_Witness ==
  /\ Analyzed
  /\ TextMode
  /\ req.text = YouAlwaysIgnore
  /\ \E c \in LastCounts : c.aggressive = 1
  /\ resp.rewritten_message = Some(WhenThisHappens \o <<" ", "ignore", " ", "my", " ", "suggestions">>)

(***************************************************************************)
(* C5.  As claimed: a typed message that matches no rule is NEUTRAL with    *)
(* tone 6, clarity 7, confidence 6 and empathy 5.                           *)
(***************************************************************************)
NoRuleMatches ==
  \A c \in LastCounts :
    c.aggressive = 0 /\ c.passive = 0 /\ c.assertive = 0 /\ c.empathetic = 0

C5_Original ==
  (Analyzed /\ TextMode /\ NoRuleMatches)
    => (Style = NEUTRAL /\ Tone = 6 /\ Clarity = 7 /\ Confidence = 6
        /\ Empathy = 5)

\* C5 as amended: a typed message that matches no rule is NEUTRAL with tone
\* 6, confidence 6 and empathy 5; its clarity is max(3, 10 - 2 * fillers),
\* which is 10 without fillers and never the default 7.
C5_NeutralDefaults ==
  (Analyzed /\ TextMode /\ NoRuleMatches)
    => /\ Style = NEUTRAL /\ Tone = 6 /\ Confidence = 6 /\ Empathy = 5
       /\ Clarity = (IF 10 - 2 * FillerCount >= 3 THEN 10 - 2 * FillerCount
                     ELSE 3)
       /\ Clarity # 7
       /\ (FillerCount = 0 => Clarity = 10)

C5_Witness ==
  /\ Analyzed /\ TextMode /\ NoRuleMatches
  /\ FillerCount = 0
  /\ Clarity = 10

(***************************************************************************)
(* C6.  Round trip: the rewritten message of a text classified AGGRESSIVE   *)
(* is not classified AGGRESSIVE.                                            *)
(***************************************************************************)
C6_RoundTrip ==
  (Analyzed /\ Style = AGGRESSIVE /\ resp.rewritten_message # None)
    => TextAnalysis(resp.rewritten_message[1]).style # AGGRESSIVE

(***************************************************************************)
(* C7.  In text mode the clarity score is max(3, 10 - 2 * filler_count):    *)
(* it is never below 3, and of two calls in a row the one that detects at   *)
(* least as many fillers has at most the clarity of the other.              *)
(***************************************************************************)
C7_TextClarity ==
  [][ (Analyzed' /\ TextMode') =>
        /\ Clarity' = (IF 10 - 2 * FillerCount' >= 3
                         THEN 10 - 2 * FillerCount' ELSE 3)
        /\ Clarity' >= 3
        /\ (Analyzed /\ TextMode /\ FillerCount' >= FillerCount)
             => Clarity' <= Clarity ]_vars

\* a second call whose text has enough fillers to reach the floor, after a
\* call with fewer
C7_Witness ==
  /\ clock = 2
  /\ Analyzed /\ TextMode
  /\ FillerCount >= 4
  /\ Clarity = 3
  /\ Len(user_journeys[req.user_id].communication_history) = 2
  /\ user_journeys[req.user_id].communication_history[1].score > Overall

(***************************************************************************)
(* C8.  The overall score of an analyzed result is the mean of the tone,    *)
(* clarity, confidence and empathy scores it reports, rounded to the        *)
(* nearest integer (a half goes to the even neighbour, as round() does),    *)
(* also after the vocal override.                                           *)
(***************************************************************************)
C8_OverallScore ==
  Analyzed =>
    LET total == Tone + Clarity + Confidence + Empathy
    IN /\ 4 * Overall - total <= 2
       /\ total - 4 * Overall <= 2
       /\ (total % 4 = 2 => Overall % 2 = 0)

\* a fused result whose overall score differs from the one of the text alone
C8_Witness ==
  /\ Analyzed /\ Fused
  /\ (Tone + Clarity + Confidence + Empathy) % 4 = 2
  /\ \E t \in TextOnly : Overall # OverallScore(t)

(***************************************************************************)
(* C9.  Idempotence: a call on a typed message returns the analysis that    *)
(* the same call returns on an empty store, whatever calls came before;     *)
(* two calls in a row on the same typed message return the same analysis.   *)
(***************************************************************************)
FreshAnalysis ==
  Body(<<>>, 0, req.user_id, req.text, NoAudio, req.relationship).result.analysis

C9_Idempotent ==
  /\ []((Analyzed /\ TextMode) => resp.analysis = FreshAnalysis)
  /\ [][ (Analyzed /\ TextMode /\ Analyzed' /\ TextMode'
            /\ req'.text = req.text)
          => resp'.analysis = resp.analysis ]_vars

\* the second of two calls of one user on the same typed message
C9_Witness ==
  /\ clock = 2
  /\ Analyzed /\ TextMode
  /\ Len(user_journeys[req.user_id].communication_history) = 2
  /\ ~user_journeys[req.user_id].communication_history[1].had_audio
  /\ user_journeys[req.user_id].communication_history[1].style = Style
  /\ Style = SOMEWHAT_AGGRESSIVE

(***************************************************************************)
(* C10.  With a vocal profile of status 'success' the clarity and           *)
(* confidence scores are those of the profile and the empathy score is the  *)
(* one of the text; without one, the four scores are those of the text.     *)
(***************************************************************************)
C10_OverrideFrame ==
  Analyzed =>
    \A t \in TextOnly :
      IF Fused
        THEN /\ Clarity = Profile.clarity.score
             /\ Confidence = Profile.confidence_score
             /\ Empathy = t.empathy_score
        ELSE /\ Tone = t.tone_score
             /\ Clarity = t.clarity_score
             /\ Confidence = t.confidence_score
             /\ Empathy = t.empathy_score

\* a fused result whose clarity and confidence both differ from the text's
C10_Witness ==
  /\ Analyzed /\ Fused
  /\ Empathy = 8
  /\ \E t \in TextOnly :
        Clarity # t.clarity_score /\ Confidence # t.confidence_score

(***************************************************************************)
(* C11.  Fusion changes the tone score in two cases only: an agitated or    *)
(* stressed voice caps it at 4 (the smaller of the text's tone and 4) and   *)
(* appends one issue; a calm voice lifts it to 7 (the larger of the text's  *)
(* tone and 7) and appends one strength; with every other emotional tone,   *)
(* and without a successful profile, the tone is the one of the text.       *)
(***************************************************************************)
AudioMode == req.audio.path = "given"

C11_ToneFusion ==
  (Analyzed /\ AudioMode) =>
    \A t \in TextOnly :
      IF Fused /\ Profile.emotional_tone = "agitated/stressed"
        THEN /\ Tone = Min(t.tone_score, 4)
             /\ Tone <= 4
             /\ resp.analysis.issues
                  = Append(t.issues, <<"mic", "Voice sounds agitated/stressed">>)
             /\ resp.analysis.strengths = t.strengths
      ELSE IF Fused /\ Profile.emotional_tone = "calm/sad"
        THEN /\ Tone = Max(t.tone_score, 7)
             /\ Tone >= 7
             /\ resp.analysis.strengths = Append(t.strengths, "Calm vocal tone")
             /\ resp.analysis.issues = t.issues
      ELSE /\ Tone = t.tone_score
           /\ resp.analysis.issues = t.issues

\* an aggressive transcript spoken in a calm voice: the tone goes from 3 to 7
C11_Witness ==
  /\ Analyzed /\ Fused
  /\ Profile.emotional_tone = "calm/sad"
  /\ Tone = 7
  /\ \E t \in TextOnly :
        /\ t.tone_score = 3
        /\ Len(resp.analysis.strengths) = Len(t.strengths) + 1

(***************************************************************************)
(* C12.  When the transcription succeeds and the feature extraction         *)
(* returns an error, the call still returns status 'analyzed': the scores,  *)
(* issues and strengths are those of the transcript alone, there is no      *)
(* vocal_analysis section and the coaching has no vocal block.              *)
(***************************************************************************)
\* the call got as far as the feature extraction
Extracted == Len(steps) > 0 /\ steps[Len(steps)] = "features"

C12_FeatureErrorFallsBack ==
  (Extracted /\ Profile.status = "error" /\ req.audio.transcript # <<>>) =>
    /\ Analyzed
    /\ Classified = req.audio.transcript
    /\ resp.transcribed_from_audio
    /\ resp.vocal_analysis = None
    /\ resp.coaching = TextCoaching(Style)
    /\ \A t \in TextOnly :
         /\ Style = t.style
         /\ Tone = t.tone_score /\ Clarity = t.clarity_score
         /\ Confidence = t.confidence_score /\ Empathy = t.empathy_score
         /\ Overall = OverallScore(t)
         /\ resp.analysis.issues = t.issues
         /\ resp.analysis.strengths = t.strengths

\* a recording too short to analyze, with a transcript full of fillers
C12_Witness ==
  /\ Extracted
  /\ req.audio.m.outcome = "ok"
  /\ Profile.status = "error"
  /\ Analyzed
  /\ resp.vocal_analysis = None
  /\ Clarity = 3

(***************************************************************************)
(* C13.  A vocal profile of status 'limited' counts as no audio signal:     *)
(* the scores are those of the transcript alone (none of them is zero), no  *)
(* issue or strength is added, the coaching has no vocal block and the      *)
(* result has no vocal_analysis section.                                    *)
(***************************************************************************)
C13_LimitedIsAbsent ==
  (Extracted /\ Profile.status = "limited" /\ req.audio.transcript # <<>>) =>
    /\ Analyzed
    /\ resp.vocal_analysis = None
    /\ resp.coaching = TextCoaching(Style)
    /\ Tone >= 1 /\ Clarity >= 1 /\ Confidence >= 1 /\ Empathy >= 1
    /\ \A t \in TextOnly :
         /\ resp.analysis
              = [style |-> t.style,
                 scores |-> [tone |-> Fmt10(t.tone_score),
                             clarity |-> Fmt10(t.clarity_score),
                             confidence |-> Fmt10(t.confidence_score),
                             empathy |-> Fmt10(t.empathy_score),
                             overall |-> Fmt10(OverallScore(t))],
                 issues |-> t.issues,
                 strengths |-> t.strengths,
                 filler_words |-> t.filler_words]

\* a passive transcript of a recording made where librosa is not installed
C13_Witness ==
  /\ Extracted
  /\ req.audio.m.outcome = "import_error"
  /\ Profile.status = "limited"
  /\ Analyzed
  /\ Style = PASSIVE
  /\ Confidence = 3

(***************************************************************************)
(* The call of analyze_audio_features that has returned: what was measured  *)
(* on the recording, and whether the profile returned has status           *)
(* 'success'.                                                               *)
(***************************************************************************)
Returned == clock = 1
Recording == req.audio.m
Succeeded == Returned /\ resp.status = "success"

(***************************************************************************)
(* C14.  On a recording shorter than 0.5 s analyze_audio_features never     *)
(* returns status 'success': it returns the error 'Audio too short' when    *)
(* the recording can be loaded.  A recording of exactly 0.5 s that can be   *)
(* loaded is analyzed.                                                      *)
(***************************************************************************)
C14_MinimumDuration ==
  (Returned /\ "duration" \in DOMAIN Recording) =>
    /\ Recording.duration < 5 =>
         /\ resp.status \in {"error", "limited"}
         /\ Recording.outcome = "ok" =>
              resp = [status |-> "error",
                      message |-> "Audio too short (min 0.5 seconds)"]
    /\ (Recording.duration = 5 /\ Recording.outcome = "ok") =>
         /\ resp.status = "success"
         /\ resp.duration_seconds = 5

\* a recording of 0.4 s
C14_Witness ==
  /\ Returned
  /\ Recording.outcome = "ok"
  /\ Recording.duration = 4
  /\ resp.status = "error"

(***************************************************************************)
(* C15.  The confidence score of a profile lies between 1 and 10: it is 5   *)
(* plus the contributions of the five levels reported in the profile,       *)
(* clamped to that range, also when the pitch variety is 'unclear'.         *)
(***************************************************************************)
C15_ConfidenceClamped ==
  Succeeded =>
    \A raw \in { 5 + ConfidenceDelta(resp.volume.level, resp.pace.level, resp.pitch.variety, resp.clarity.level, resp.pauses.level) } :
      /\ resp.confidence_score \in 1..10
      /\ resp.confidence_score
           = (IF raw < 1 THEN 1 ELSE IF raw > 10 THEN 10 ELSE raw)

\* every level at its worst: 5 - 2 - 1 - 2 - 2 - 2 is clamped to 1
C15_Witness ==
  /\ Succeeded
  /\ resp.volume.level = "soft" /\ resp.pace.level = "slow"
  /\ resp.pitch.variety = "monotone" /\ resp.clarity.level = "unclear"
  /\ resp.pauses.level = "many_long"
  /\ resp.confidence_score = 1

(***************************************************************************)
(* C16.  As claimed: with mean RMS 0.02 and 1.5 onsets per second the       *)
(* volume is 'soft', the pace is 'slow' and the confidence score is 2.      *)
(***************************************************************************)
\* mean RMS 0.02 (in thousandths) and 1.5 onsets per second (duration in
\* tenths of a second)
Example3 ==
  /\ Recording.avg_volume = 20
  /\ 20 * Recording.num_onsets = 3 * Recording.duration

C17_OverallIsMean ==
  Succeeded =>
    resp.overall_score
      = RoundDiv(10 * (resp.volume.score + resp.pace.score + resp.pitch.score
                        + resp.clarity.score + resp.pauses.score), 5)

(***************************************************************************)
(* C18.  The emotional tone is the one of the first rule that the levels    *)
(* of the profile satisfy: loud and fast, agitated/stressed; soft and low   *)
(* pitch, calm/sad; expressive and moderate volume, engaged/enthusiastic;   *)
(* monotone and slow, bored/disengaged; otherwise neutral/controlled.  In   *)
(* particular a calm/sad profile has volume level 'soft'.                   *)
(***************************************************************************)
C18_ToneRules ==
  Succeeded =>
    /\ resp.emotional_tone
         = (IF resp.volume.level = "loud" /\ resp.pace.level = "fast"
              THEN "agitated/stressed"
            ELSE IF resp.volume.level = "soft" /\ resp.pitch.level = "low"
              THEN "calm/sad"
            ELSE IF resp.pitch.variety = "expressive"
                      /\ resp.volume.level = "moderate"
              THEN "engaged/enthusiastic"
            ELSE IF resp.pitch.variety = "monotone" /\ resp.pace.level = "slow"
              THEN "bored/disengaged"
            ELSE "neutral/controlled")
    /\ resp.emotional_tone = "calm/sad" => resp.volume.level = "soft"

(***************************************************************************)
(* C19.  A call with neither text nor audio (text empty or None, no audio   *)
(* path) returns status 'needs_input', not 'error', with the usage          *)
(* guidance; the result has no analysis, no coaching and no rewritten       *)
(* message.                                                                 *)
(***************************************************************************)
Called == clock > 0

C19_NeedsInput ==
  (Called /\ TextMode /\ req.text = <<>>) =>
    /\ resp.status = "needs_input"
    /\ resp.status # "error"
    /\ DOMAIN resp = {"status", "message", "features", "options", "examples",
                      "audio_tips"}
    /\ Len(resp.features) = 2 /\ Len(resp.options) = 2
    /\ Len(resp.examples) = 2
    /\ {"analysis", "coaching", "rewritten_message"} \cap DOMAIN resp = {}

\* the second call of a session, without input, after an analyzed one
C19_Witness ==
  /\ clock = 2
  /\ TextMode /\ req.text = <<>>
  /\ resp.status = "needs_input"
  /\ metrics.communication_analyses = 1

(***************************************************************************)
(* C20.  Validation comes before any decode work: a file with an            *)
(* unsupported extension (.aac, in either case), a missing file, an empty   *)
(* file and a file over 50 MB make the call return an error before any      *)
(* conversion, transcription or feature extraction is started and before    *)
(* any temporary file is made; the error is the one of the first check      *)
(* that fails, in the order extension, existence, empty, oversize.          *)
(***************************************************************************)
BadExtension == LowerExt(req.audio.ext) \notin valid_audio_extensions
Missing == ~req.audio.exists
Empty == req.audio.size = 0
Oversize == req.audio.size > 50 * 1024 * 1024

C20_ValidationFirst ==
  (Called /\ AudioMode /\ (BadExtension \/ Missing \/ Empty \/ Oversize)) =>
    /\ resp.status = "error"
    /\ steps = <<>>
    /\ temp_files = 0
    /\ resp.message
         = (IF BadExtension THEN "Unsupported audio format"
            ELSE IF Missing THEN "Audio file not found"
            ELSE IF Empty THEN "Audio file is empty"
            ELSE "Audio file too large")

\* a missing .AAC file: the extension is reported, not the missing file
C20_Witness ==
  /\ Called /\ AudioMode
  /\ req.audio.ext = ".AAC"
  /\ Missing
  /\ resp = ErrorResult("Unsupported audio format")
  /\ steps = <<>>


(***************************************************************************)
(* C21.  Every temporary WAV file made while transcoding a recording that   *)
(* is not a .wav file is deleted by the time the call returns, on every     *)
(* exit path: no temporary file is left on disk after a call.               *)
(***************************************************************************)
C21_TempFilesReleased ==
  Called => temp_files = 0


(***************************************************************************)
(* C22.  The transcription is attempted at most once in a call.  When it    *)
(* fails (speech not understood, service error, or any other exception)     *)
(* the call returns an error at once: nothing is done after the one         *)
(* attempt, no feature extraction is started, and the result has no         *)
(* analysis and no coaching; the user's record and the count of analyses    *)
(* are as they were.                                                        *)
(***************************************************************************)
\* the steps of the last call that are a transcription
Transcriptions == { i \in DOMAIN steps : steps[i] = "transcribe" }

\* the last call got as far as the transcription
ReachedTranscription ==
  /\ Called /\ AudioMode
  /\ ~(BadExtension \/ Missing \/ Empty \/ Oversize)
  /\ (req.audio.ext = ".wav" \/ req.audio.convert = "ok")

C22_NoRetry ==
  /\ Cardinality(Transcriptions) <= 1
  /\ (ReachedTranscription /\ req.audio.stt # "ok") =>
       /\ resp.status = "error"
       /\ resp.message
            = (CASE req.audio.stt = "unknown_value" ->
                      "Could not understand the audio"
                 [] req.audio.stt = "request_error" ->
                      "Speech recognition service is temporarily unavailable"
                 [] OTHER -> "Audio processing failed")
       /\ Transcriptions = {Len(steps)}
       /\ \A i \in DOMAIN steps : steps[i] # "features"
       /\ DOMAIN resp = {"status", "message"}
       /\ metrics.communication_analyses = 0
       /\ user_journeys[req.user_id].communication_history = <<>>

\* the service fails on a converted .mp3 file
C22_Witness ==
  /\ ReachedTranscription
  /\ req.audio.ext = ".mp3"
  /\ req.audio.stt = "request_error"
  /\ steps = <<"convert", "transcribe">>
  /\ resp.status = "error"


(***************************************************************************)
(* C23.  No state is shared between invocations: what a call returns is     *)
(* what the same call returns on an empty store, whatever calls of the      *)
(* same or of another user came before it.                                  *)
(***************************************************************************)
\* what the last call would have returned as the first call of the process
AloneResult ==
  Body(<<>>, 0, req.user_id, req.text, req.audio, req.relationship).result

C23_NoSharedState ==
  Called => resp = AloneResult


(***************************************************************************)
(* C24.  With a successful vocal profile, what the coaching holds after     *)
(* the lines of the style is either nothing or an empty line, the header    *)
(* and the vocal lines: at most one line for each of volume, pace, pitch,   *)
(* clarity and pauses, and a line for a dimension only when its level is    *)
(* not the optimal one (moderate volume, moderate pace, expressive pitch,   *)
(* clear speech, natural pauses).  When the five levels are optimal the     *)
(* coaching is the one of the style, without header.                        *)
(***************************************************************************)
VolumeLines ==
  { "Lower your volume slightly to sound less aggressive",
    "Speak louder to sound more confident" }
PaceLines ==
  { "Slow down your speech - take breaths between sentences",
    "Increase pace slightly to maintain listener engagement" }
PitchLines == { "Vary your pitch - emphasize key words for impact" }
ClarityLines == { "Enunciate clearly - open your mouth more when speaking" }
PauseLines ==
  { "Reduce long pauses - prepare your thoughts beforehand",
    "Add strategic pauses to let ideas sink in" }

\* the positions of the coaching that hold a line of the set
LinesOf(S) == { i \in DOMAIN resp.coaching : resp.coaching[i] \in S }

\* the levels as the result reports them
Vocal == resp.vocal_analysis[1]

AllOptimal ==
  /\ Vocal.volume.level = "moderate" /\ Vocal.pace.level = "moderate"
  /\ Vocal.pitch.variety = "expressive" /\ Vocal.clarity.level = "clear"
  /\ Vocal.pauses.pattern = "natural"

C24_VocalCoaching ==
  (Analyzed /\ Fused) =>
    \A n \in {Len(TextCoaching(Style))} :
      /\ SubSeq(resp.coaching, 1, n) = TextCoaching(Style)
      /\ Cardinality(LinesOf(VolumeLines)) <= 1
      /\ Cardinality(LinesOf(PaceLines)) <= 1
      /\ Cardinality(LinesOf(PitchLines)) <= 1
      /\ Cardinality(LinesOf(ClarityLines)) <= 1
      /\ Cardinality(LinesOf(PauseLines)) <= 1
      /\ LinesOf(VolumeLines) # {} => Vocal.volume.level # "moderate"
      /\ LinesOf(PaceLines) # {} => Vocal.pace.level # "moderate"
      /\ LinesOf(PitchLines) # {} => Vocal.pitch.variety # "expressive"
      /\ LinesOf(ClarityLines) # {} => Vocal.clarity.level # "clear"
      /\ LinesOf(PauseLines) # {} => Vocal.pauses.pattern # "natural"
      /\ \A i \in (n + 3)..Len(resp.coaching) :
           resp.coaching[i] \in VolumeLines \cup PaceLines \cup PitchLines
                                  \cup ClarityLines \cup PauseLines
      /\ Len(resp.coaching) > n =>
           /\ Len(resp.coaching) >= n + 3
           /\ resp.coaching[n + 1] = ""
           /\ resp.coaching[n + 2] = "VOCAL COACHING:"
      /\ AllOptimal =>
           /\ resp.coaching = TextCoaching(Style)
           /\ LinesOf({"VOCAL COACHING:"}) = {}

\* an assertive transcript spoken at the optimal level of every dimension
C24_Witness ==
  /\ Analyzed /\ Fused
  /\ AllOptimal
  /\ Style = ASSERTIVE
  /\ resp.coaching = AssertiveCoaching


(***************************************************************************)
(* C25.  The style of the result selects the coaching and the rewriting:    *)
(* AGGRESSIVE and SOMEWHAT AGGRESSIVE get the aggressive template and the   *)
(* aggressive substitutions, PASSIVE the passive template and the passive   *)
(* substitutions, ASSERTIVE and ASSERTIVE & EMPATHETIC the assertive        *)
(* template, neutral no line at all.  A rewritten message is returned only  *)
(* for the aggressive and passive styles, and exactly when the              *)
(* substitutions changed the text.                                          *)
(***************************************************************************)
\* whether the rewritten message is the text t, and differs from the message
RewrittenTo(t) ==
  IF t = Classified THEN resp.rewritten_message = None
  ELSE resp.rewritten_message = Some(t)

C25_StyleSelects ==
  (Analyzed /\ TextMode) =>
    CASE Style \in {AGGRESSIVE, SOMEWHAT_AGGRESSIVE} ->
           /\ resp.coaching = AggressiveCoaching
           /\ \E t \in {RewriteAggressive(Classified)} : RewrittenTo(t)
      [] Style = PASSIVE ->
           /\ resp.coaching = PassiveCoaching
           /\ \E t \in {RewritePassive(Classified)} : RewrittenTo(t)
      [] Style \in {ASSERTIVE, ASSERTIVE_EMPATHETIC} ->
           /\ resp.coaching = AssertiveCoaching
           /\ resp.rewritten_message = None
      [] Style = NEUTRAL ->
           /\ resp.coaching = <<>>
           /\ resp.rewritten_message = None

\* one aggressive match: the aggressive template, and a rewritten message
C25_Witness ==
  /\ Analyzed /\ TextMode
  /\ Style = SOMEWHAT_AGGRESSIVE
  /\ resp.coaching = AggressiveCoaching
  /\ resp.rewritten_message # None


(***************************************************************************)
(* C26.  On a recording that is silent throughout (mean energy 0, no pitch  *)
(* estimate) analyze_audio_features does not return status 'success'; on a  *)
(* recording with sound whose pitch cannot be estimated it returns status   *)
(* 'success' with pitch level and pitch variety 'unclear'.                  *)
(***************************************************************************)
\* the recording could be loaded and is long enough to be analyzed
Analyzable ==
  /\ Returned
  /\ Recording.outcome = "ok"
  /\ "duration" \in DOMAIN Recording
  /\ Recording.duration >= 5

Silent == Recording.avg_volume = 0 /\ ~Recording.has_pitch

C26_SilenceFails ==
  Analyzable =>
    /\ Silent => resp.status # "success"
    /\ (~Recording.has_pitch /\ Recording.avg_volume > 0) =>
         /\ resp.status = "success"
         /\ resp.pitch.level = "unclear"
         /\ resp.pitch.variety = "unclear"


(***************************************************************************)
(* C27.  When a recording is given and its transcription succeeds, the      *)
(* transcript is the text that is classified, whatever text the caller      *)
(* gave: original_message is the transcript, the style and the filler       *)
(* words are those of the transcript, and transcribed_from_audio is true.   *)
(* A result made without a transcript has transcribed_from_audio false and  *)
(* the caller's text as original_message; a result that is not an analysis  *)
(* has no such field.                                                       *)
(***************************************************************************)
C27_TranscriptIsText ==
  IF Analyzed
    THEN /\ resp.transcribed_from_audio = AudioMode
         /\ Classified = (IF AudioMode THEN req.audio.transcript ELSE req.text)
         /\ \A t \in TextOnly :
              /\ Style = t.style
              /\ resp.analysis.filler_words = t.filler_words
    ELSE "transcribed_from_audio" \notin DOMAIN resp

\* a recording sent along with a typed message of another style
C27_Witness ==
  /\ Analyzed /\ AudioMode
  /\ req.text = Text(<<1>>)
  /\ req.audio.transcript = Text(<<11, 13>>)
  /\ Classified = Text(<<11, 13>>)
  /\ Style = ASSERTIVE_EMPATHETIC
  /\ resp.transcribed_from_audio


(***************************************************************************)
(* C28.  A filler of the vocabulary is reported in filler_words exactly     *)
(* when it occurs in the text as a whole word, that is between two word     *)
(* boundaries: at the start or the end of the text and next to punctuation  *)
(* as well, and not when it is only part of a longer word.                  *)
(***************************************************************************)
\* re.search(r"\bfiller\b", lower) is not None
WholeWord(f, lower) == ReSearch(<<B, Alt({f}), B>>, lower)

Reported(f) == \E i \in DOMAIN resp.analysis.filler_words : resp.analysis.filler_words[i] = f

C28_WordBoundary ==
  (Analyzed /\ TextMode) =>
    \A lower \in {LowerText(Classified)} :
      \A k \in DOMAIN fillers :
        Reported(fillers[k]) <=> WholeWord(fillers[k], lower)


(***************************************************************************)
(* C29.  A call that returns 'analyzed' adds 1 to the communication streak  *)
(* of its user, 15 to the user's points, one entry to the user's history    *)
(* and 1 to the count of analyses; it leaves the other users as they were.  *)
(* A call that returns 'error' or 'needs_input' leaves the four as they     *)
(* were for every user (a user without a record has streak 0, no points     *)
(* and an empty history).                                                   *)
(***************************************************************************)
StreakOf(journeys, u) ==
  IF u \in DOMAIN journeys THEN journeys[u].streaks.communication ELSE 0

PointsOf(journeys, u) ==
  IF u \in DOMAIN journeys THEN journeys[u].total_points ELSE 0

HistoryOf(journeys, u) ==
  IF u \in DOMAIN journeys THEN journeys[u].communication_history ELSE <<>>

C29_StatsOnlyOnAnalyzed ==
  [][ /\ resp'.status \in {"analyzed", "error", "needs_input"}
      /\ metrics'.communication_analyses
           = metrics.communication_analyses
               + (IF resp'.status = "analyzed" THEN 1 ELSE 0)
      /\ \A u \in SessionUsers :
           IF resp'.status = "analyzed" /\ u = req'.user_id
             THEN /\ StreakOf(user_journeys', u) = StreakOf(user_journeys, u) + 1
                  /\ PointsOf(user_journeys', u) = PointsOf(user_journeys, u) + 15
                  /\ Len(HistoryOf(user_journeys', u))
                       = Len(HistoryOf(user_journeys, u)) + 1
                  /\ SubSeq(HistoryOf(user_journeys', u), 1,
                            Len(HistoryOf(user_journeys, u)))
                       = HistoryOf(user_journeys, u)
             ELSE /\ StreakOf(user_journeys', u) = StreakOf(user_journeys, u)
                  /\ PointsOf(user_journeys', u) = PointsOf(user_journeys, u)
                  /\ HistoryOf(user_journeys', u) = HistoryOf(user_journeys, u)
    ]_vars

\* a call that fails validation, made by a user with one analysis
C29_Witness ==
  /\ clock = 2
  /\ resp.status = "error"
  /\ StreakOf(user_journeys, req.user_id) = 1
  /\ PointsOf(user_journeys, req.user_id) = 15
  /\ Len(HistoryOf(user_journeys, req.user_id)) = 1
  /\ metrics.communication_analyses = 1


(***************************************************************************)
(* C30.  When the calls of all the threads have returned, the user has one  *)
(* record, made once, whose communication streak is the number of calls,    *)
(* whose points are 15 times that number and whose history has one entry    *)
(* for each call, whatever the interleaving was.                            *)
(***************************************************************************)
AllReturned == \A t \in Threads : threads[t].pc = "done"

C30_NoLostUpdate ==
  AllReturned =>
    /\ DOMAIN user_journeys = {ConcurrentUser}
    /\ Len(heap.objects) = 1
    /\ user_journeys[ConcurrentUser].streaks.communication = MaxCalls
    /\ user_journeys[ConcurrentUser].total_points = 15 * MaxCalls
    /\ Len(user_journeys[ConcurrentUser].communication_history) = MaxCalls

====
